---- MODULE Spec2Model ----
(***************************************************************************)
(* A model of the scrabble-solver engine: the lexicon trie                 *)
(* (scrabble/dictionary.py), the Move value (scrabble/primitives.py), the  *)
(* Board (scrabble/board.py) and the lazy move generator                   *)
(* (scrabble/movegenerator.py).                                            *)
(*                                                                         *)
(* A tile is a one-character string: "A".."Z" a lettered tile, "a".."z" a  *)
(* blank played as that letter, " " an empty square (or, in a rack, an     *)
(* unassigned blank).  A word is a sequence of tiles.  A position is the   *)
(* pair <<row, col>>.  A Move is the list of its <<tile, pos>> pairs.      *)
(***************************************************************************)
EXTENDS Integers, Sequences, FiniteSets, TLC

(***************************************************************************)
(* Program constants                                                       *)
(***************************************************************************)
BoardSize == 15

MaxIndex == 14

CentreIndex == 7

MaxPlaced == 7

LeftCap == 6

UpperCase ==
  << "A","B","C","D","E","F","G","H","I","J","K","L","M",
     "N","O","P","Q","R","S","T","U","V","W","X","Y","Z" >>

LowerCase ==
  << "a","b","c","d","e","f","g","h","i","j","k","l","m",
     "n","o","p","q","r","s","t","u","v","w","x","y","z" >>

Range(s) == { s[i] : i \in DOMAIN s }

\* the upper-case letter of each lower-case letter
UpperOf ==
  [ch \in Range(LowerCase) |-> UpperCase[CHOOSE i \in DOMAIN LowerCase : LowerCase[i] = ch]]

\* the lower-case letter of each upper-case letter
LowerOf ==
  [ch \in Range(UpperCase) |-> LowerCase[CHOOSE i \in DOMAIN UpperCase : UpperCase[i] = ch]]

\* str.upper() of a one-character string
Upper(ch) == IF ch \in DOMAIN UpperOf THEN UpperOf[ch] ELSE ch

\* str.lower() of a one-character string
Lower(ch) == IF ch \in DOMAIN LowerOf THEN LowerOf[ch] ELSE ch

UpperWord(w) == [i \in DOMAIN w |-> Upper(w[i])]

Reverse(s) == [i \in 1..Len(s) |-> s[Len(s) + 1 - i]]

\* x in list
Has(list, x) == \E i \in DOMAIN list : list[i] = x

\* list.remove(x): drops the first occurrence of x (x is in the list)
list_remove(list, x) ==
  LET k == CHOOSE i \in DOMAIN list : list[i] = x /\ \A j \in 1..(i - 1) : list[j] # x
  IN  [i \in 1..(Len(list) - 1) |-> IF i < k THEN list[i] ELSE list[i + 1]]

(***************************************************************************)
(* Positions (scrabble/primitives.py, PositionUtils)                       *)
(***************************************************************************)
Pos == (0..MaxIndex) \X (0..MaxIndex)

flat_pos(pos) == pos[1] * BoardSize + pos[2]

out_of_bounds(pos) ==
  pos[1] < 0 \/ pos[1] > MaxIndex \/ pos[2] < 0 \/ pos[2] > MaxIndex

transpose_pos(pos) == <<pos[2], pos[1]>>

add_pos(pos1, pos2) == <<pos1[1] + pos2[1], pos1[2] + pos2[2]>>

\* tuple comparison of two positions, the sort key of Move.get_word
PosLess(p, q) == p[1] < q[1] \/ (p[1] = q[1] /\ p[2] < q[2])

(***************************************************************************)
(* The lexicon trie (scrabble/dictionary.py).  A Node is named by its path *)
(* from the root; branch_nodes[n] lists the edges out of n in the order    *)
(* they were added (the iteration order of the dict), terminal is the set  *)
(* of nodes whose flag is set.                                             *)
(***************************************************************************)
None == <<"None">>

KeyError == <<"KeyError">>

root_node == <<>>

EmptyTree == [branch_nodes |-> (root_node :> <<>>), terminal |-> {}]

get_branch(tree, node, edge) ==
  IF Has(tree.branch_nodes[node], Upper(edge)) THEN Append(node, Upper(edge)) ELSE None

add_branch(tree, node, edge) ==
  LET child == Append(node, Upper(edge))
  IN  [tree EXCEPT !.branch_nodes =
         (child :> <<>>) @@ [@ EXCEPT ![node] = Append(@, Upper(edge))]]

RECURSIVE InsertWord(_, _, _, _)
InsertWord(tree, word, i, current_node) ==
  IF i > Len(word)
  THEN [tree EXCEPT !.terminal = @ \cup {current_node}]
  ELSE LET next_node == get_branch(tree, current_node, word[i])
       IN  IF next_node = None
           THEN InsertWord(add_branch(tree, current_node, word[i]), word, i + 1,
                           Append(current_node, Upper(word[i])))
           ELSE InsertWord(tree, word, i + 1, next_node)

RECURSIVE BuildFrom(_, _, _)
BuildFrom(tree, word_list, k) ==
  IF k > Len(word_list) THEN tree
  ELSE BuildFrom(InsertWord(tree, word_list[k], 1, root_node), word_list, k + 1)

build_from_list(word_list) == BuildFrom(EmptyTree, word_list, 1)

\* Walk that returns the node it reached when an edge is missing
RECURSIVE Walk_as_far_as_found(_, _, _, _)
Walk_as_far_as_found(tree, path, i, current_node) ==
  IF i > Len(path) THEN current_node
  ELSE LET next_node == get_branch(tree, current_node, path[i])
       IN  IF next_node = None THEN current_node
           ELSE Walk_as_far_as_found(tree, path, i + 1, next_node)

RECURSIVE Walk(_, _, _, _)
Walk(tree, path, i, current_node) ==
  IF i > Len(path) THEN current_node
  ELSE LET next_node == get_branch(tree, current_node, path[i])
       IN  IF next_node = None THEN KeyError
           ELSE Walk(tree, path, i + 1, next_node)

\* Tree.get_node: the node at the path, or the KeyError it raises
get_node(tree, path) == Walk(tree, UpperWord(path), 1, root_node)

\* lookup that returns the node found whether terminal or not
lookup_any_node(tree, word) ==
  LET found_node == get_node(tree, UpperWord(word))
  IN  IF found_node # KeyError THEN found_node ELSE None

\* Tree.lookup: the terminal node of the word, or None
lookup(tree, word) ==
  LET found_node == get_node(tree, UpperWord(word))
  IN  IF found_node # KeyError /\ found_node \in tree.terminal THEN found_node ELSE None

(***************************************************************************)
(* Move (scrabble/primitives.py): the list `tiles` of <<tile, pos>> pairs  *)
(***************************************************************************)
EmptyMove == <<>>

across(tiles) == Len(tiles) <= 1 \/ tiles[1][2][1] = tiles[2][2][1]

all_positions(tiles) == [i \in DOMAIN tiles |-> tiles[i][2]]

transpose_move(tiles) == [i \in DOMAIN tiles |-> <<tiles[i][1], <<tiles[i][2][2], tiles[i][2][1]>> >>]

\* list.sort(key=lambda tile: tile[1]): a stable sort on the position
RECURSIVE SortByPos(_)
SortByPos(tiles) ==
  IF Len(tiles) <= 1 THEN tiles
  ELSE LET last == tiles[Len(tiles)]
           init == SortByPos(SubSeq(tiles, 1, Len(tiles) - 1))
           k    == Cardinality({i \in DOMAIN init : ~PosLess(last[2], init[i][2])})
       IN  SubSeq(init, 1, k) \o <<last>> \o SubSeq(init, k + 1, Len(init))

get_word(tiles) == [i \in DOMAIN tiles |-> SortByPos(tiles)[i][1]]

copy_move(tiles) == tiles

\* anchored_to_moves with the anchor index taken off twice
anchored_to_moves_shifted(word, anchor_pos, anchor_index, is_across) ==
  [k \in DOMAIN word |->
     <<word[k],
       IF is_across THEN <<anchor_pos[1], anchor_pos[2] - 2 * anchor_index + (k - 1)>>
                    ELSE <<anchor_pos[1] - 2 * anchor_index + (k - 1), anchor_pos[2]>> >>]

anchored_to_moves(word, anchor_pos, anchor_index, is_across) ==
  [k \in DOMAIN word |->
     <<word[k],
       IF is_across THEN <<anchor_pos[1], anchor_pos[2] - anchor_index + (k - 1)>>
                    ELSE <<anchor_pos[1] - anchor_index + (k - 1), anchor_pos[2]>> >>]

iadd(tiles, value) == Append(tiles, value)

isub(tiles, value) == list_remove(tiles, value)

(***************************************************************************)
(* Board (scrabble/board.py).  A Board object is a window on an array:     *)
(* `data` is the array it reads and writes, `transposed` says whether it   *)
(* is the numpy transpose view of that array.                              *)
(***************************************************************************)
EmptyArray == [p \in Pos |-> " "]

Index(brd, pos) == IF brd.transposed THEN transpose_pos(pos) ELSE pos

get_square(brd, pos) == brd.data[Index(brd, pos)]

set_square(brd, pos, tile) == [brd EXCEPT !.data[Index(brd, pos)] = tile]

RECURSIVE MakeFrom(_, _, _)
MakeFrom(brd, tiles, i) ==
  IF i > Len(tiles) THEN brd
  ELSE MakeFrom(set_square(brd, tiles[i][2], tiles[i][1]), tiles, i + 1)

make_move(brd, tiles) == MakeFrom(brd, tiles, 1)

RECURSIVE UnmakeFrom(_, _, _)
UnmakeFrom(brd, tiles, i) ==
  IF i > Len(tiles) THEN brd
  ELSE UnmakeFrom(set_square(brd, tiles[i][2], " "), tiles, i + 1)

\* unmake_move that leaves the first tile on the board
unmake_move_but_first(brd, tiles) == UnmakeFrom(brd, tiles, 2)

unmake_move(brd, tiles) == UnmakeFrom(brd, tiles, 1)

\* Board.transpose: a Board on np.transpose(self._board), a view of the same array
transpose_board(brd) == [data |-> brd.data, transposed |-> ~brd.transposed]

\* The stop conditions the callers pass to the traversals, each a closure of the
\* source: `lambda tile, _: tile == " "`
StopAtEmpty == [kind |-> "empty"]

\* `lambda _, pos: pos in anchors or board.get_square(pos) != " "`
StopAtAnchorOrTile(anchor_list) == [kind |-> "anchor_or_tile", anchors |-> anchor_list]

\* the stop_condition of get_words_formed, closed over its move
StopOutsideMove(tiles) == [kind |-> "outside_move", tiles |-> tiles]

\* The stop condition of get_words_formed
WordStop(tiles, curr_square, curr_pos) ==
  curr_square = " " /\ ~Has(all_positions(tiles), curr_pos)

\* stop_condition(current_square, current_pos): the closure is called
stop_condition(condition, brd, curr_square, curr_pos) ==
  CASE condition.kind = "empty" -> curr_square = " "
    [] condition.kind = "anchor_or_tile" ->
         Has(condition.anchors, curr_pos) \/ get_square(brd, curr_pos) # " "
    [] condition.kind = "outside_move" -> WordStop(condition.tiles, curr_square, curr_pos)

\* The cells start + k*direction, k = 1, 2, ..., up to the first one that is out
\* of bounds or satisfies the stop condition
traverse_until_condition(brd, start, direction, condition) ==
  LET at(k)    == <<start[1] + k * direction[1], start[2] + k * direction[2]>>
      halts(k) == out_of_bounds(at(k))
                    \/ stop_condition(condition, brd, get_square(brd, at(k)), at(k))
      n        == CHOOSE k \in 0..BoardSize : (\A j \in 1..k : ~halts(j)) /\ halts(k + 1)
  IN  [k \in 1..n |-> <<get_square(brd, at(k)), at(k)>>]

traverse_axis_until_condition(brd, pos, axis, condition) ==
  Reverse(traverse_until_condition(brd, pos, <<-axis[1], -axis[2]>>, condition))
    \o << <<get_square(brd, pos), pos>> >>
    \o traverse_until_condition(brd, pos, axis, condition)

traverse_axis_until_empty(brd, pos, axis) ==
  traverse_axis_until_condition(brd, pos, axis, StopAtEmpty)

\* The primary word of get_words_formed, read on the board with the move made
base_word(made, move) ==
  traverse_axis_until_condition(made, move[1][2],
                                IF across(move) THEN <<0, 1>> ELSE <<1, 0>>,
                                StopOutsideMove(move))

\* The run through the i-th tile of the move, across the move's axis
cross_tiles(made, move, i) ==
  traverse_axis_until_condition(made, move[i][2],
                                IF across(move) THEN <<1, 0>> ELSE <<0, 1>>,
                                StopOutsideMove(move))

\* The sequence of words get_words_formed yields when fully consumed
WordsFormed(brd, move) ==
  IF Len(move) <= 0 THEN <<>>
  ELSE LET made  == make_move(brd, move)
           cross == [i \in DOMAIN move |-> cross_tiles(made, move, i)]
           kept  == SelectSeq([i \in DOMAIN move |-> i], LAMBDA i : Len(cross[i]) > 1)
       IN  <<base_word(made, move)>> \o [j \in DOMAIN kept |-> cross[kept[j]]]

\* The board get_words_formed leaves behind when fully consumed
BoardAfterWords(brd, move) ==
  IF Len(move) <= 0 THEN brd ELSE unmake_move(make_move(brd, move), move)

(***************************************************************************)
(* The inputs of the model: one lexicon, a set of boards, a set of racks   *)
(***************************************************************************)
MaxRack == 2

WordList ==
  << <<"C","A","T">>, <<"C","A","T","S">>, <<"S","C","A","T">>, <<"A","S">>,
     <<"A","T">>, <<"T","A">>, <<"S","A","T">>, <<"A","C","T">>, <<"A","T","S">>,
     <<"E","S","T","A","T","E","S">> >>

dictionary == build_from_list(WordList)

RackTiles == {"A", "S", " "}

BingoRack == <<"E","S","T","A","T","E","S">>

RackSet == UNION { [1..n -> RackTiles] : n \in 0..MaxRack }

\* The array with the word laid from the origin, across or down
Laid(array, word, origin, is_across) ==
  make_move([data |-> array, transposed |-> FALSE],
            anchored_to_moves(word, origin, 0, is_across)).data

BoardSet ==
  { EmptyArray,
    Laid(EmptyArray, <<"C","A","T">>, <<7, 7>>, TRUE),
    Laid(EmptyArray, <<"C","A","T">>, <<7, 11>>, TRUE),
    Laid(EmptyArray, <<"c","A","T">>, <<12, 0>>, FALSE),
    Laid(EmptyArray, <<"T","C">>, <<7, 7>>, TRUE),
    Laid(EmptyArray, <<"C","A">>, <<0, 3>>, FALSE),
    Laid(Laid(EmptyArray, <<"C","A","T">>, <<7, 7>>, TRUE), <<"A","T">>, <<7, 8>>, FALSE) }

\* The boards and racks calc_all_moves is called on: every board with every
\* short rack, and the empty board with a rack that spells a seven-letter word
Inputs == (BoardSet \X RackSet) \cup {<<EmptyArray, BingoRack>>}

(***************************************************************************)
(* The state of one call of MoveGenerator.calc_all_moves(rack), a lazy     *)
(* generator, and of one call of Board.get_words_formed(move)              *)
(***************************************************************************)
VARIABLES
  cells,        \* the array of the generator's board (self._board._board)
  rack,         \* the caller's rack list, mutated in place
  pc,           \* where the generator stands
  pass,         \* "across": on the board, "down": on its transpose
  cc_cells,     \* _calc_cross_check: the cells np.where found, in order
  ci,           \* _calc_cross_check: index of the current cell
  li,           \* _calc_cross_check: index of the current letter
  cross_check,  \* the entries of the cross_check array that were overwritten
  anchors,      \* _calc_all_across_moves: the anchors list
  ai,           \* index of the anchor the for loop is at
  stack,        \* the live _left_part and _right_part calls, innermost last
  placed,       \* the Move accumulator shared by the _right_part calls
  out,          \* the moves the stream has delivered so far, as the consumer
                \* that holds them sees them now
  shared,       \* the indices of `out` whose Move holds the very list object
                \* of the generator's `placed`
  yielded,      \* the generator is suspended at a yield to the consumer
  cells0,       \* the array when the call began
  rack0,        \* the rack when the call began
  move,         \* get_words_formed: its argument
  words,        \* get_words_formed: the words yielded so far
  wi,           \* get_words_formed: index of the tile whose cross word is next
  total_score,  \* calc_score: the running total
  score,        \* calc_score: the score of the current word
  word_multiplier, \* calc_score: the word multiplier of the current word
  ti,           \* calc_score: index of the current tile of the current word
  copy_cells,   \* the array np.copy made for Board.copy()
  derived,      \* the Board that copy() or transpose() returned: the array it
                \* holds ("copied": copy_cells, "shared": cells) and its orientation
  wrote,        \* the boards written to since then, in order
  args,         \* the arguments of the call of a function under study
  result,       \* what the call returned, or KeyError when it raised
  the_tree,     \* the Tree under construction or in use
  other,        \* a second Move, compared with `move`
  current_position, \* traverse_until_condition: its local current_pos
  pool,         \* PartialGame: the list of the tiles not seen on the board yet,
                \* held as the number of times each tile is in it: the code
                \* only removes from it, appends to it and tests membership
  current_player, \* PartialGame: the index of the player to move
  history,      \* PartialGame: the moves made, oldest first
  before        \* PartialGame: its fields when make_move was called, kept until
                \* the call after the undo_last_move that follows it

vars ==
  << cells, rack, pc, pass, cc_cells, ci, li, cross_check, anchors, ai, stack,
     placed, out, shared, yielded, cells0, rack0, move, words, wi,
     total_score, score, word_multiplier, ti, copy_cells, derived, wrote,
     args, result, the_tree, other, current_position, pool, current_player,
     history, before >>

\* The locals of calc_score, and their values while calc_score is not running
ScoreVars == <<total_score, score, word_multiplier, ti>>

ScoreIdle == total_score = 0 /\ score = 0 /\ word_multiplier = 1 /\ ti = 1

\* The boards derived from the board, and their values while there is none
BoardsVars == <<copy_cells, derived, wrote>>

BoardsIdle == copy_cells = <<>> /\ derived = <<"None">> /\ wrote = <<>>

\* The local of a traversal, and its value while none is running
WalkVars == <<current_position>>

WalkIdle == current_position = <<>>

\* The fields of a PartialGame besides its board and rack, and their values
\* while no game is under study
GameVars == <<pool, current_player, history, before>>

GameIdle == pool = <<>> /\ current_player = 0 /\ history = <<>> /\ before = <<>>

\* The values of single calls, and their values while none is under study
ValueVars == <<args, result, the_tree, other>>

ValueIdle == args = <<>> /\ result = <<>> /\ the_tree = <<>> /\ other = <<>>

CROSS_CHECK_KERNEL == << <<0, 1, 0>>, <<0, 0, 0>>, <<0, 1, 0>> >>

\* a kernel that counts the diagonal neighbours too
ANCHOR_KERNEL_with_diagonals == << <<1, 1, 1>>, <<1, 0, 1>>, <<1, 1, 1>> >>

ANCHOR_KERNEL == << <<0, 1, 0>>, <<1, 0, 1>>, <<0, 1, 0>> >>

\* The Board the current pass works on: self._board, or self._board.transpose()
PassBoard == [data |-> cells, transposed |-> (pass = "down")]

\* (board.board != " ") at pos, 0 outside the array (mode="same" pads with zeros)
Filled(brd, pos) ==
  IF out_of_bounds(pos) THEN 0 ELSE IF get_square(brd, pos) # " " THEN 1 ELSE 0

\* convolve2d(board.board != " ", kernel, mode="same") at pos, times
\* (board.board == " ") at pos
convolved(brd, kernel, pos) ==
  LET term(i, j) == kernel[i][j] * Filled(brd, <<pos[1] + 2 - i, pos[2] + 2 - j>>)
  IN  (term(1, 1) + term(1, 2) + term(1, 3) + term(2, 1) + term(2, 2) + term(2, 3)
         + term(3, 1) + term(3, 2) + term(3, 3)) * (1 - Filled(brd, pos))

\* The positions of the array in row-major order
AllPositions == [k \in 1..(BoardSize * BoardSize) |-> <<(k - 1) \div BoardSize, (k - 1) % BoardSize>>]

\* list(zip(*np.where(convolved >= 1)))
where(brd, kernel) == SelectSeq(AllPositions, LAMBDA p : convolved(brd, kernel, p) >= 1)

\* cross_check[pos] as a set of letters: the default string holds every letter
CrossCheckAt(cc, pos) == IF pos \in DOMAIN cc THEN cc[pos] ELSE Range(UpperCase)

Init ==
  /\ \E input \in Inputs : cells = input[1] /\ rack = input[2]
  /\ pc = "start"
  /\ pass = "across"
  /\ cc_cells = <<>>
  /\ ci = 1
  /\ li = 1
  /\ cross_check = <<>>
  /\ anchors = <<>>
  /\ ai = 1
  /\ stack = <<>>
  /\ placed = EmptyMove
  /\ out = <<>>
  /\ shared = {}
  /\ yielded = FALSE
  /\ cells0 = cells
  /\ rack0 = rack
  /\ move = EmptyMove
  /\ words = <<>>
  /\ wi = 1
  /\ ScoreIdle
  /\ BoardsIdle
  /\ WalkIdle
  /\ GameIdle
  /\ ValueIdle

(***************************************************************************)
(* _calc_all_across_moves, up to the anchor loop                           *)
(***************************************************************************)
CallFrame == <<move, words, wi, cells0, rack0, ScoreVars, BoardsVars, ValueVars, WalkVars, GameVars>>

\* calc_all_moves line 297 (and 300, on the transposed board): the pass begins,
\* _calc_cross_check initialises its array and finds the cells to fill
StartPass ==
  /\ pc = "start"
  /\ cross_check' = <<>>
  /\ cc_cells' = where(PassBoard, CROSS_CHECK_KERNEL)
  /\ ci' = 1
  /\ li' = 1
  /\ pc' = "cc_write"
  /\ yielded' = FALSE
  /\ UNCHANGED <<cells, rack, pass, anchors, ai, stack, placed, out, shared>>
  /\ UNCHANGED CallFrame

\* _calc_cross_check lines 60 and 63: the entry is emptied before the first
\* letter, and the letter is written on the board
CrossCheckWrite ==
  /\ pc = "cc_write"
  /\ ci <= Len(cc_cells)
  /\ cross_check' = IF li = 1 THEN (cc_cells[ci] :> {}) @@ cross_check ELSE cross_check
  /\ cells' = set_square(PassBoard, cc_cells[ci], UpperCase[li]).data
  /\ pc' = "cc_read"
  /\ UNCHANGED <<rack, pass, cc_cells, ci, li, anchors, ai, stack, placed, out, shared, yielded>>
  /\ UNCHANGED CallFrame

\* lines 68-70 without the lookup of line 69
cross_check_add_unchecked(letters, word, letter) ==
  IF Len(word) > 1 THEN letters \cup {letter} ELSE letters

\* the letters cross_check[pos] holds after the test of lines 68-70
cross_check_add(letters, word, letter) ==
  IF Len(word) > 1 /\ lookup(dictionary, word) # None THEN letters \cup {letter} ELSE letters

\* line 66 left out: the letter stays on the square
cross_check_restore_skipped(letter) == letter

\* line 66: what stands on the square once the letter has been tried
cross_check_restore(letter) == " "

\* _calc_cross_check lines 64-70: the vertical run is read, the square is
\* emptied again, the letter is kept if the run is a word
CrossCheckRead ==
  /\ pc = "cc_read"
  /\ \E read \in {traverse_axis_until_empty(PassBoard, cc_cells[ci], <<1, 0>>)} :
     \E word \in {[i \in DOMAIN read |-> read[i][1]]} :
       /\ cells' = set_square(PassBoard, cc_cells[ci], cross_check_restore(UpperCase[li])).data
       /\ cross_check' =
            [cross_check EXCEPT ![cc_cells[ci]] = cross_check_add(@, word, UpperCase[li])]
  /\ IF li < Len(UpperCase)
     THEN li' = li + 1 /\ ci' = ci
     ELSE li' = 1 /\ ci' = ci + 1
  /\ pc' = "cc_write"
  /\ UNCHANGED <<rack, pass, cc_cells, anchors, ai, stack, placed, out, shared, yielded>>
  /\ UNCHANGED CallFrame

\* lines 242-244 without the centre square of lines 247-248
calc_anchors_no_centre(brd) == where(brd, ANCHOR_KERNEL)

\* _calc_all_across_moves lines 242-248
calc_anchors(brd) ==
  LET found == where(brd, ANCHOR_KERNEL)
  IN  IF found = <<>> THEN << <<CentreIndex, CentreIndex>> >> ELSE found

CalcAnchors ==
  /\ pc = "cc_write"
  /\ ci > Len(cc_cells)
  /\ anchors' = calc_anchors(PassBoard)
  /\ ai' = 1
  /\ pc' = "anchors"
  /\ UNCHANGED <<cells, rack, pass, cc_cells, ci, li, cross_check, stack, placed, out, shared, yielded>>
  /\ UNCHANGED CallFrame

\* lines 251-259 counting one cell too many
left_limit_one_more(brd, anchor_list, anchor) ==
  Len(traverse_until_condition(brd, anchor, <<0, -1>>, StopAtAnchorOrTile(anchor_list))) + 1

\* line 251-259: the number of empty non-anchor cells left of the anchor
left_limit(brd, anchor_list, anchor) ==
  Len(traverse_until_condition(brd, anchor, <<0, -1>>, StopAtAnchorOrTile(anchor_list)))

\* lines 276-279: the word of the tiles standing left of the anchor
existing_left_part(brd, anchor) ==
  get_word(traverse_until_condition(brd, anchor, <<0, -1>>, StopAtEmpty))

\* line 292 without the except clause
handled_nothing(exception) == FALSE

\* line 292: the exceptions the except clause handles
handled(exception) == exception = KeyError

LeftFrame(partial_word, current_node, limit) ==
  [kind |-> "L", partial_word |-> partial_word, current_node |-> current_node,
   limit |-> limit, at |-> "enter", choice |-> 0]

RightFrame(main_anchor_index, partial_word, current_node, current_pos) ==
  [kind |-> "R", partial_word |-> partial_word, current_node |-> current_node,
   main_anchor_index |-> main_anchor_index, current_pos |-> current_pos,
   at |-> "enter", choice |-> 0]

\* lines 261-262: there is room for a left part, _left_part is called
AnchorLeftPart ==
  /\ pc = "anchors"
  /\ ai <= Len(anchors)
  /\ left_limit(PassBoard, anchors, anchors[ai]) > 0
  /\ stack' = << LeftFrame(<<>>, root_node,
                           IF left_limit(PassBoard, anchors, anchors[ai]) < LeftCap
                           THEN left_limit(PassBoard, anchors, anchors[ai]) ELSE LeftCap) >>
  /\ pc' = "search"
  /\ UNCHANGED <<cells, rack, pass, cc_cells, ci, li, cross_check, anchors, ai, placed, out, shared, yielded>>
  /\ UNCHANGED CallFrame

\* lines 275-291: no room, the left part is what stands on the board, and
\* _right_part is called on its node with an empty Move
AnchorExisting ==
  /\ pc = "anchors"
  /\ ai <= Len(anchors)
  /\ left_limit(PassBoard, anchors, anchors[ai]) = 0
  /\ \E left_part \in {existing_left_part(PassBoard, anchors[ai])} :
       \E node \in {get_node(dictionary, left_part)} :
         /\ node # KeyError
         /\ stack' = << RightFrame(Len(left_part), left_part, node, anchors[ai]) >>
         /\ placed' = EmptyMove
  /\ pc' = "search"
  /\ UNCHANGED <<cells, rack, pass, cc_cells, ci, li, cross_check, anchors, ai, out, yielded>>
  /\ shared' = {}
  /\ UNCHANGED CallFrame

\* lines 288, 292-293: get_node raises KeyError, the except clause passes and
\* the loop goes to the next anchor
AnchorNoPath ==
  /\ pc = "anchors"
  /\ ai <= Len(anchors)
  /\ left_limit(PassBoard, anchors, anchors[ai]) = 0
  /\ \E left_part \in {existing_left_part(PassBoard, anchors[ai])} :
       get_node(dictionary, left_part) = KeyError
  /\ IF handled(KeyError)
     THEN pc' = "anchors" /\ ai' = ai + 1
     ELSE pc' = "raised" /\ ai' = ai
  /\ UNCHANGED <<cells, rack, pass, cc_cells, ci, li, cross_check, anchors, stack, placed, out, shared, yielded>>
  /\ UNCHANGED CallFrame

\* calc_all_moves line 300: the across pass is exhausted, the down pass begins
EndAcross ==
  /\ pc = "anchors"
  /\ ai > Len(anchors)
  /\ pass = "across"
  /\ pass' = "down"
  /\ pc' = "start"
  /\ UNCHANGED <<cells, rack, cc_cells, ci, li, cross_check, anchors, ai, stack, placed, out, shared, yielded>>
  /\ UNCHANGED CallFrame

\* calc_all_moves line 304: the pass move is yielded
YieldPass ==
  /\ pc = "anchors"
  /\ ai > Len(anchors)
  /\ pass = "down"
  /\ out' = Append(out, EmptyMove)
  /\ shared' = shared
  /\ yielded' = TRUE
  /\ pc' = "passed"
  /\ UNCHANGED <<cells, rack, pass, cc_cells, ci, li, cross_check, anchors, ai, stack, placed>>
  /\ UNCHANGED CallFrame

\* the consumer asks once more and the generator returns: the stream ends
Finish ==
  /\ pc = "passed"
  /\ pc' = "done"
  /\ yielded' = FALSE
  /\ UNCHANGED <<cells, rack, pass, cc_cells, ci, li, cross_check, anchors, ai, stack, placed, out, shared>>
  /\ UNCHANGED CallFrame

(***************************************************************************)
(* The recursion of _left_part and _right_part.  A call is a frame of the  *)
(* stack; `at` is the point the call stands at: "enter" (just called),     *)
(* "yielded" (after its yield), "tile_ret" / "blank_ret" / "occupied_ret"  *)
(* (the recursive call it made has returned).  `choice` numbers the        *)
(* recursive calls of the for loop over the edges in the order they are    *)
(* tried: 2k-1 plays the tile of the k-th edge, 2k plays a blank as it.    *)
(***************************************************************************)
Top == stack[Len(stack)]

Below == SubSeq(stack, 1, Len(stack) - 1)

Edges(node) == dictionary.branch_nodes[node]

ChoiceEdge(node, c) == Edges(node)[(c + 1) \div 2]

ChoiceIsBlank(c) == c % 2 = 0

\* lines 118-119 and 205-206 testing and taking the lettered tile, not the blank
ChoiceRackTile_lettered(node, c) == ChoiceEdge(node, c)

\* what leaves the rack, and what is put down, for a choice
ChoiceRackTile(node, c) == IF ChoiceIsBlank(c) THEN " " ELSE ChoiceEdge(node, c)

ChoiceTile(node, c) == IF ChoiceIsBlank(c) THEN Lower(ChoiceEdge(node, c)) ELSE ChoiceEdge(node, c)

\* the rack.append of lines 115, 121, 201, 220 left out
restore_rack_lost(the_rack, tile) == the_rack

\* rack.append(tile) on return from a recursive call: lines 115, 121, 201, 220
restore_rack(the_rack, tile) == Append(the_rack, tile)

\* _left_part lines 112 and 118: the tests that guard the recursive calls
left_allows(the_rack, node, c) == Has(the_rack, ChoiceRackTile(node, c))

\* _right_part lines 185, 187 and 205
right_allows(the_rack, cc, pos, node, c) ==
  /\ ChoiceEdge(node, c) \in CrossCheckAt(cc, pos)
  /\ Has(the_rack, ChoiceRackTile(node, c))

\* lines 169 and 177 without the test on the anchor index
may_yield_at_anchor(frame) == frame.current_node \in dictionary.terminal

\* _right_part lines 169 and 177: a tile was placed on or after the anchor and
\* the word so far is in the lexicon
may_yield(frame) ==
  /\ Len(frame.partial_word) # frame.main_anchor_index
  /\ frame.current_node \in dictionary.terminal

\* _right_part line 180
rack_spent(tiles) == Len(tiles) >= MaxPlaced

\* what the consumer receives: placed.copy(), transposed back in the down pass
Delivered(tiles) == IF pass = "down" THEN transpose_move(copy_move(tiles)) ELSE copy_move(tiles)

SearchFrame == <<cells, pass, cc_cells, ci, li, cross_check, anchors>>

\* What the holders of the moves in `out` see once the list of `placed` holds
\* new_tiles: a Move that shares the list shows its new contents
Seen(new_tiles) == [i \in DOMAIN out |-> IF i \in shared THEN new_tiles ELSE out[i]]

\* The generator runs on, inside the search, without yielding
ProceedWith(new_stack, new_rack, new_placed, new_out, new_shared) ==
  /\ stack' = new_stack
  /\ rack' = new_rack
  /\ placed' = new_placed
  /\ yielded' = FALSE
  /\ out' = new_out
  /\ shared' = new_shared
  /\ IF new_stack = <<>>
     THEN pc' = "anchors" /\ ai' = ai + 1
     ELSE pc' = "search" /\ ai' = ai
  /\ UNCHANGED SearchFrame
  /\ UNCHANGED CallFrame

\* The same Move object goes on: `placed += ...` and `placed -= ...` change its
\* list in place (primitives.py:204-210)
Proceed(new_stack, new_rack, new_placed) ==
  ProceedWith(new_stack, new_rack, new_placed, Seen(new_placed), shared)

\* `yield placed`: the consumer would hold the Move of the generator
shares_when_not_copied(index) == {index}

\* `yield placed.copy()`, lines 170 and 178: Move.copy returns Move(*self.tiles),
\* whose __init__ builds a list of its own (primitives.py:78, 161), so the
\* move at the new index shares nothing
shares_when_copied(index) == {}

\* calc_all_moves line 301 yields move.transpose(), another new Move
shares_when_delivered(index) == IF pass = "down" THEN {} ELSE shares_when_copied(index)

\* A move is yielded to the consumer and the generator is suspended
Deliver(new_stack) ==
  /\ stack' = new_stack
  /\ out' = Append(out, Delivered(placed))
  /\ shared' = shared \cup shares_when_delivered(Len(out) + 1)
  /\ yielded' = TRUE
  /\ UNCHANGED <<rack, placed, pc, ai>>
  /\ UNCHANGED SearchFrame
  /\ UNCHANGED CallFrame

\* _left_part line 107 and _calc_all_across_moves lines 262-273: the left part
\* is handed to the loop, which calls _right_part at the anchor with the left
\* part as the tiles placed so far
LeftYield ==
  /\ pc = "search"
  /\ Top.kind = "L"
  /\ Top.at = "enter"
  /\ ProceedWith(Below \o << [Top EXCEPT !.at = "yielded"],
                             RightFrame(Len(Top.partial_word), Top.partial_word,
                                        Top.current_node, anchors[ai]) >>,
                 rack,
                 anchored_to_moves(Top.partial_word, anchors[ai], Len(Top.partial_word), TRUE),
                 out, {})

\* _left_part lines 109-121 from the choice `from` on: the next recursive call
\* the loop makes, or the return when there is none
LeftContinue(the_rack, from) ==
  LET node == Top.current_node
      open == {c \in from..(2 * Len(Edges(node))) : left_allows(the_rack, node, c)}
  IN  IF Top.limit > 0 /\ open # {}
      THEN LET c == CHOOSE x \in open : \A y \in open : x <= y
           IN  Proceed(Below \o << [Top EXCEPT !.at = IF ChoiceIsBlank(c) THEN "blank_ret"
                                                      ELSE "tile_ret",
                                               !.choice = c],
                                   LeftFrame(Append(Top.partial_word, ChoiceTile(node, c)),
                                             Append(node, ChoiceEdge(node, c)),
                                             Top.limit - 1) >>,
                       list_remove(the_rack, ChoiceRackTile(node, c)),
                       placed)
      ELSE Proceed(Below, the_rack, placed)

\* _left_part resumed after its yield: line 109
LeftResume ==
  /\ pc = "search"
  /\ Top.kind = "L"
  /\ Top.at = "yielded"
  /\ LeftContinue(rack, 1)

\* _left_part line 115: the tile goes back to the rack
LeftAfterTile ==
  /\ pc = "search"
  /\ Top.kind = "L"
  /\ Top.at = "tile_ret"
  /\ LeftContinue(restore_rack(rack, ChoiceRackTile(Top.current_node, Top.choice)), Top.choice + 1)

\* _left_part line 121: the blank goes back to the rack
LeftAfterBlank ==
  /\ pc = "search"
  /\ Top.kind = "L"
  /\ Top.at = "blank_ret"
  /\ LeftContinue(restore_rack(rack, " "), Top.choice + 1)

\* _right_part lines 184-221 from the choice `from` on
RightContinue(the_rack, the_placed, from) ==
  LET node == Top.current_node
      pos  == Top.current_pos
      open == {c \in from..(2 * Len(Edges(node))) :
                 right_allows(the_rack, cross_check, pos, node, c)}
  IN  IF open # {}
      THEN LET c == CHOOSE x \in open : \A y \in open : x <= y
           IN  Proceed(Below \o << [Top EXCEPT !.at = IF ChoiceIsBlank(c) THEN "blank_ret"
                                                      ELSE "tile_ret",
                                               !.choice = c],
                                   RightFrame(Top.main_anchor_index,
                                              Append(Top.partial_word, ChoiceTile(node, c)),
                                              Append(node, ChoiceEdge(node, c)),
                                              <<pos[1], pos[2] + 1>>) >>,
                       list_remove(the_rack, ChoiceRackTile(node, c)),
                       iadd(the_placed, <<ChoiceTile(node, c), pos>>))
      ELSE Proceed(Below, the_rack, the_placed)

\* _right_part lines 167-171, the position is off the board
RightOutOfBounds ==
  /\ pc = "search"
  /\ Top.kind = "R"
  /\ Top.at = "enter"
  /\ out_of_bounds(Top.current_pos)
  /\ IF may_yield(Top)
     THEN Deliver(Below \o << [Top EXCEPT !.at = "yielded"] >>)
     ELSE Proceed(Below, rack, placed)

\* _right_part lines 173-221, the square is empty
RightEmpty ==
  /\ pc = "search"
  /\ Top.kind = "R"
  /\ Top.at = "enter"
  /\ ~out_of_bounds(Top.current_pos)
  /\ get_square(PassBoard, Top.current_pos) = " "
  /\ IF may_yield(Top)
     THEN Deliver(Below \o << [Top EXCEPT !.at = "yielded"] >>)
     ELSE IF rack_spent(placed)
          THEN Proceed(Below, rack, placed)
          ELSE RightContinue(rack, placed, 1)

\* _right_part resumed after a yield: line 171 returns, line 180 goes on
RightResume ==
  /\ pc = "search"
  /\ Top.kind = "R"
  /\ Top.at = "yielded"
  /\ IF out_of_bounds(Top.current_pos) \/ rack_spent(placed)
     THEN Proceed(Below, rack, placed)
     ELSE RightContinue(rack, placed, 1)

\* _right_part lines 201-202 and 220-221: the tile goes back to the rack and
\* leaves the Move; list.remove raises ValueError when the tile is not there
RightUndo ==
  LET tile == <<ChoiceTile(Top.current_node, Top.choice), Top.current_pos>>
  IN  IF Has(placed, tile)
      THEN RightContinue(restore_rack(rack, ChoiceRackTile(Top.current_node, Top.choice)),
                         isub(placed, tile), Top.choice + 1)
      ELSE /\ pc' = "raised"
           /\ rack' = restore_rack(rack, ChoiceRackTile(Top.current_node, Top.choice))
           /\ UNCHANGED <<stack, placed, out, shared, yielded, ai>>
           /\ UNCHANGED SearchFrame
           /\ UNCHANGED CallFrame

RightAfterTile ==
  /\ pc = "search"
  /\ Top.kind = "R"
  /\ Top.at = "tile_ret"
  /\ RightUndo

RightAfterBlank ==
  /\ pc = "search"
  /\ Top.kind = "R"
  /\ Top.at = "blank_ret"
  /\ RightUndo

\* _right_part lines 223-238, the square holds a tile: the search goes through
\* it when the trie has its edge
RightOccupied ==
  /\ pc = "search"
  /\ Top.kind = "R"
  /\ Top.at = "enter"
  /\ ~out_of_bounds(Top.current_pos)
  /\ get_square(PassBoard, Top.current_pos) # " "
  /\ LET current_tile == get_square(PassBoard, Top.current_pos)
         node == get_branch(dictionary, Top.current_node, current_tile)
     IN  IF node # None
         THEN Proceed(Below \o << [Top EXCEPT !.at = "occupied_ret"],
                                  RightFrame(Top.main_anchor_index,
                                             Append(Top.partial_word, current_tile),
                                             node,
                                             <<Top.current_pos[1], Top.current_pos[2] + 1>>) >>,
                      rack, placed)
         ELSE Proceed(Below, rack, placed)

\* _right_part line 238: the call through the occupied square has returned
RightAfterOccupied ==
  /\ pc = "search"
  /\ Top.kind = "R"
  /\ Top.at = "occupied_ret"
  /\ Proceed(Below, rack, placed)

Next ==
  \/ StartPass
  \/ CrossCheckWrite
  \/ CrossCheckRead
  \/ CalcAnchors
  \/ AnchorLeftPart
  \/ AnchorExisting
  \/ AnchorNoPath
  \/ LeftYield
  \/ LeftResume
  \/ LeftAfterTile
  \/ LeftAfterBlank
  \/ RightOutOfBounds
  \/ RightEmpty
  \/ RightResume
  \/ RightAfterTile
  \/ RightAfterBlank
  \/ RightOccupied
  \/ RightAfterOccupied
  \/ EndAcross
  \/ YieldPass
  \/ Finish

Spec == Init /\ [][Next]_vars

(***************************************************************************)
(* One call of Board.get_words_formed(move), consumed to its end           *)
(***************************************************************************)
MaxMove == 2

MoveTiles == {"S", "a"}

MoveSquares == {<<6, 9>>, <<7, 9>>, <<8, 9>>, <<7, 10>>, <<8, 8>>}

\* Moves of any shape on the squares: on one line or not, on empty squares or
\* on tiles, with a square used twice
MoveSet == UNION { [1..n -> MoveTiles \X MoveSquares] : n \in 0..MaxMove }

WordsBoardSet ==
  { EmptyArray,
    Laid(EmptyArray, <<"C","A","T">>, <<7, 7>>, TRUE),
    Laid(Laid(EmptyArray, <<"C","A","T">>, <<7, 7>>, TRUE), <<"A","T">>, <<7, 8>>, FALSE) }

TheBoard == [data |-> cells, transposed |-> FALSE]

InitWords ==
  /\ cells \in WordsBoardSet
  /\ move \in MoveSet
  /\ pc = "words_start"
  /\ words = <<>>
  /\ wi = 1
  /\ cells0 = cells
  /\ rack = <<>>
  /\ rack0 = <<>>
  /\ pass = "across"
  /\ cc_cells = <<>>
  /\ ci = 1
  /\ li = 1
  /\ cross_check = <<>>
  /\ anchors = <<>>
  /\ ai = 1
  /\ stack = <<>>
  /\ placed = EmptyMove
  /\ out = <<>>
  /\ shared = {}
  /\ yielded = FALSE
  /\ ScoreIdle
  /\ BoardsIdle
  /\ WalkIdle
  /\ GameIdle
  /\ ValueIdle

WordsFrame ==
  << rack, pass, cc_cells, ci, li, cross_check, anchors, ai, stack, placed, out, shared,
     yielded, cells0, rack0, move, ScoreVars, BoardsVars, ValueVars,
     WalkVars, GameVars >>

\* lines 130-131: the empty move forms no word
WordsOfPass ==
  /\ pc = "words_start"
  /\ Len(move) <= 0
  /\ pc' = "words_done"
  /\ UNCHANGED <<cells, words, wi>>
  /\ UNCHANGED WordsFrame

\* lines 136-148: the move is made on the board and the primary word is yielded
WordsMake ==
  /\ pc = "words_start"
  /\ Len(move) > 0
  /\ cells' = make_move(TheBoard, move).data
  /\ words' = << base_word(make_move(TheBoard, move), move) >>
  /\ wi' = 1
  /\ pc' = "words_cross"
  /\ UNCHANGED WordsFrame

\* lines 150-162: the run across the move through its next tile, yielded when
\* it has two tiles or more
WordsCross ==
  /\ pc = "words_cross"
  /\ wi <= Len(move)
  /\ words' = IF Len(cross_tiles(TheBoard, move, wi)) > 1
               THEN Append(words, cross_tiles(TheBoard, move, wi))
               ELSE words
  /\ wi' = wi + 1
  /\ UNCHANGED <<cells, pc>>
  /\ UNCHANGED WordsFrame

\* line 164: the move is taken off the board
WordsUnmake ==
  /\ pc = "words_cross"
  /\ wi > Len(move)
  /\ cells' = unmake_move(TheBoard, move).data
  /\ pc' = "words_done"
  /\ UNCHANGED <<words, wi>>
  /\ UNCHANGED WordsFrame

NextWords ==
  \/ WordsOfPass
  \/ WordsMake
  \/ WordsCross
  \/ WordsUnmake

SpecWords == InitWords /\ [][NextWords]_vars

(***************************************************************************)
(* The rules table (scrabble/rules.py loads it from rules.json): the point *)
(* value of each lettered tile and the four sets of premium squares, the   *)
(* standard ones                                                           *)
(***************************************************************************)
TILE_VALUE ==
  LET values == <<1, 3, 3, 2, 1, 4, 2, 4, 1, 8, 5, 1, 3, 1, 1, 3, 10, 1, 1, 1, 1, 4, 4, 8, 4, 10>>
  IN  [ch \in Range(UpperCase) |-> values[CHOOSE i \in DOMAIN UpperCase : UpperCase[i] = ch]]

\* A set of squares with its mirror images in the two axes and the diagonal
Mirrored(squares) ==
  UNION { { <<p[1], p[2]>>, <<p[2], p[1]>>, <<MaxIndex - p[1], p[2]>>, <<p[2], MaxIndex - p[1]>>,
            <<p[1], MaxIndex - p[2]>>, <<MaxIndex - p[2], p[1]>>,
            <<MaxIndex - p[1], MaxIndex - p[2]>>, <<MaxIndex - p[2], MaxIndex - p[1]>> }
          : p \in squares }

TW == Mirrored({<<0, 0>>, <<0, 7>>})

DW == Mirrored({<<1, 1>>, <<2, 2>>, <<3, 3>>, <<4, 4>>, <<7, 7>>})

TL == Mirrored({<<1, 5>>, <<5, 5>>})

DL == Mirrored({<<0, 3>>, <<2, 6>>, <<3, 7>>, <<6, 6>>})

(***************************************************************************)
(* One call of Board.calc_score(move)                                      *)
(***************************************************************************)
\* line 208: the number of tiles of a bingo
BingoTiles == 7

\* line 209: the bonus of a bingo
BingoBonus == 50

\* line 195: rules.TILE_VALUE.get(tile, 0)
tile_value(tile) == IF tile \in DOMAIN TILE_VALUE THEN TILE_VALUE[tile] ELSE 0

\* lines 189-194 with the test of line 190 left out: a premium under any tile
letter_multiplier_any_tile(tiles, pos) ==
  IF pos \in DL THEN 2 ELSE IF pos \in TL THEN 3 ELSE 1

\* lines 189-194: letter_multiplier
letter_multiplier(tiles, pos) ==
  IF Has(all_positions(tiles), pos)
  THEN IF pos \in DL THEN 2 ELSE IF pos \in TL THEN 3 ELSE 1
  ELSE 1

\* lines 198-202 with the word premiums left out
word_bonus_never(tiles, pos) == 1

\* lines 198-202: the factor word_multiplier is multiplied by
word_bonus(tiles, pos) ==
  IF Has(all_positions(tiles), pos)
  THEN IF pos \in DW THEN 2 ELSE IF pos \in TW THEN 3 ELSE 1
  ELSE 1

\* lines 208-209 giving the bonus from seven tiles on
bingo_bonus_from_seven(tiles) == IF Len(tiles) >= BingoTiles THEN BingoBonus ELSE 0

\* lines 208-209: the 7-letter bonus
bingo_bonus(tiles) == IF Len(tiles) = BingoTiles THEN BingoBonus ELSE 0

ScoreTiles == {"C", "a"}

\* squares beside the tiles of the boards, and plain, DL, TL, DW and TW squares
ScoreSquares == {<<7, 10>>, <<7, 11>>, <<8, 8>>, <<8, 9>>, <<9, 9>>, <<10, 10>>, <<0, 0>>}

\* Moves of up to MaxMove tiles, and longer ones: of six, seven and eight tiles
ScoreMoveSet ==
  UNION { [1..n -> ScoreTiles \X ScoreSquares] : n \in 0..MaxMove }
    \cup { anchored_to_moves(<<"B","A","N","A","N","A">>, <<7, 7>>, 0, TRUE),
           anchored_to_moves(<<"E","S","T","A","T","E","S">>, <<7, 7>>, 0, TRUE),
           anchored_to_moves(<<"E","S","T","A","T","E","S">>, <<7, 1>>, 6, FALSE),
           anchored_to_moves(<<"E","s","T","A","T","E","S">>, <<0, 0>>, 0, TRUE),
           anchored_to_moves(<<"E","S","T","A","T","E","S","S">>, <<0, 0>>, 0, TRUE) }

\* what calc_score leaves alone
ScoreFrame ==
  << rack, pass, cc_cells, ci, li, cross_check, anchors, ai, stack, placed, out, shared,
     yielded, cells0, rack0, move, BoardsVars, ValueVars,
     WalkVars, GameVars >>

InitScore ==
  /\ cells \in WordsBoardSet
  /\ move \in ScoreMoveSet
  /\ pc = "score_start"
  /\ words = <<>>
  /\ wi = 1
  /\ cells0 = cells
  /\ rack = <<>>
  /\ rack0 = <<>>
  /\ pass = "across"
  /\ cc_cells = <<>>
  /\ ci = 1
  /\ li = 1
  /\ cross_check = <<>>
  /\ anchors = <<>>
  /\ ai = 1
  /\ stack = <<>>
  /\ placed = EmptyMove
  /\ out = <<>>
  /\ shared = {}
  /\ yielded = FALSE
  /\ ScoreIdle
  /\ BoardsIdle
  /\ WalkIdle
  /\ GameIdle
  /\ ValueIdle

\* lines 179-182: the total is 0 and get_words_formed(move) is called; the words
\* it will yield are those of WordsFormed, and the move stands on the board
\* while they are scored
ScoreBegin ==
  /\ pc = "score_start"
  /\ total_score' = 0
  /\ words' = WordsFormed(TheBoard, move)
  /\ cells' = IF Len(move) <= 0 THEN cells ELSE make_move(TheBoard, move).data
  /\ wi' = 1
  /\ pc' = "score_word"
  /\ UNCHANGED <<score, word_multiplier, ti>>
  /\ UNCHANGED ScoreFrame

\* lines 182-184: the next word of the stream
ScoreWord ==
  /\ pc = "score_word"
  /\ wi <= Len(words)
  /\ score' = 0
  /\ word_multiplier' = 1
  /\ ti' = 1
  /\ pc' = "score_tile"
  /\ UNCHANGED <<cells, words, wi, total_score>>
  /\ UNCHANGED ScoreFrame

\* lines 187-202: one tile of the word
ScoreTile ==
  /\ pc = "score_tile"
  /\ ti <= Len(words[wi])
  /\ score' = score + tile_value(words[wi][ti][1]) * letter_multiplier(move, words[wi][ti][2])
  /\ word_multiplier' = word_multiplier * word_bonus(move, words[wi][ti][2])
  /\ ti' = ti + 1
  /\ UNCHANGED <<cells, words, wi, total_score, pc>>
  /\ UNCHANGED ScoreFrame

\* lines 204-205: the word is scored
ScoreWordEnd ==
  /\ pc = "score_tile"
  /\ ti > Len(words[wi])
  /\ total_score' = total_score + score * word_multiplier
  /\ wi' = wi + 1
  /\ pc' = "score_word"
  /\ UNCHANGED <<cells, words, score, word_multiplier, ti>>
  /\ UNCHANGED ScoreFrame

\* lines 182, 207-211: the stream of words ends (get_words_formed takes the move
\* off the board, line 164), the bonus is added and the total returned
ScoreReturn ==
  /\ pc = "score_word"
  /\ wi > Len(words)
  /\ cells' = IF Len(move) <= 0 THEN cells ELSE unmake_move(TheBoard, move).data
  /\ total_score' = total_score + bingo_bonus(move)
  /\ pc' = "score_done"
  /\ UNCHANGED <<words, wi, score, word_multiplier, ti>>
  /\ UNCHANGED ScoreFrame

NextScore ==
  \/ ScoreBegin
  \/ ScoreWord
  \/ ScoreTile
  \/ ScoreWordEnd
  \/ ScoreReturn

SpecScore == InitScore /\ [][NextScore]_vars

(***************************************************************************)
(* Board.copy() and Board.transpose(), and writes to the board and to the  *)
(* board they returned                                                     *)
(***************************************************************************)
MaxWrites == 2

WriteTiles == {"S", " "}

WriteSquares == {<<7, 8>>, <<8, 7>>, <<0, 14>>}

WriteMoves == UNION { [1..n -> {"S"} \X WriteSquares] : n \in 1..2 }

\* Board.copy: a Board on np.copy(self._board), a new array
copy_board(brd) == [data |-> brd.data, transposed |-> brd.transposed]

\* The Board object `derived` stands for
DerivedBoard ==
  [data |-> IF derived.array = "shared" THEN cells ELSE copy_cells,
   transposed |-> derived.transposed]

\* what the board operations here leave alone
BoardsFrame ==
  << rack, pass, cc_cells, ci, li, cross_check, anchors, ai, stack, placed, out, shared,
     yielded, cells0, rack0, move, words, wi, ScoreVars, ValueVars,
     WalkVars, GameVars >>

InitBoards ==
  /\ cells \in WordsBoardSet
  /\ pc = "board_start"
  /\ move = EmptyMove
  /\ words = <<>>
  /\ wi = 1
  /\ cells0 = cells
  /\ rack = <<>>
  /\ rack0 = <<>>
  /\ pass = "across"
  /\ cc_cells = <<>>
  /\ ci = 1
  /\ li = 1
  /\ cross_check = <<>>
  /\ anchors = <<>>
  /\ ai = 1
  /\ stack = <<>>
  /\ placed = EmptyMove
  /\ out = <<>>
  /\ shared = {}
  /\ yielded = FALSE
  /\ ScoreIdle
  /\ BoardsIdle
  /\ WalkIdle
  /\ GameIdle
  /\ ValueIdle

\* Board.copy(), line 225
BoardCopy ==
  /\ pc = "board_start"
  /\ copy_cells' = copy_board(TheBoard).data
  /\ derived' = [array |-> "copied", transposed |-> copy_board(TheBoard).transposed]
  /\ pc' = "board_derived"
  /\ UNCHANGED <<cells, wrote>>
  /\ UNCHANGED BoardsFrame

\* Board.transpose(), line 235: np.transpose returns a view, no array is made
BoardTranspose ==
  /\ pc = "board_start"
  /\ derived' = [array |-> "shared", transposed |-> transpose_board(TheBoard).transposed]
  /\ pc' = "board_derived"
  /\ UNCHANGED <<cells, copy_cells, wrote>>
  /\ UNCHANGED BoardsFrame

\* The Board a write addresses: the original, or the board returned
TargetBoard(target) == IF target = "original" THEN TheBoard ELSE DerivedBoard

\* A board operation on the target leaves it as `after`: the array the target
\* holds is written
WriteTo(target, after) ==
  /\ pc = "board_derived"
  /\ Len(wrote) < MaxWrites
  /\ IF target = "original" \/ derived.array = "shared"
     THEN cells' = after.data /\ copy_cells' = copy_cells
     ELSE copy_cells' = after.data /\ cells' = cells
  /\ wrote' = Append(wrote, target)
  /\ UNCHANGED <<derived, pc>>
  /\ UNCHANGED BoardsFrame

SetSquare ==
  \E target \in {"original", "derived"}, pos \in WriteSquares, tile \in WriteTiles :
    WriteTo(target, set_square(TargetBoard(target), pos, tile))

MakeMove ==
  \E target \in {"original", "derived"}, tiles \in WriteMoves :
    WriteTo(target, make_move(TargetBoard(target), tiles))

UnmakeMove ==
  \E target \in {"original", "derived"}, tiles \in WriteMoves :
    WriteTo(target, unmake_move(TargetBoard(target), tiles))

NextBoards ==
  \/ BoardCopy
  \/ BoardTranspose
  \/ SetSquare
  \/ MakeMove
  \/ UnmakeMove

SpecBoards == InitBoards /\ [][NextBoards]_vars

(***************************************************************************)
(* Move.anchored_to_moves followed by Move.get_word                        *)
(***************************************************************************)
MaxWordLen == 3

\* the words: every string of at most MaxWordLen letters over a lettered tile
\* and a blank played as a letter
AnchoredWords == UNION { [1..n -> {"A", "b"}] : n \in 0..MaxWordLen }

AnchoredSquares == {<<0, 0>>, <<7, 7>>, <<14, 14>>, <<0, 13>>, <<13, 1>>}

AnchoredArgs ==
  [word : AnchoredWords, anchor_pos : AnchoredSquares,
   anchor_index : 0..MaxWordLen, across : BOOLEAN]

\* the variables of the generator and of get_words_formed, at rest
GeneratorIdle ==
  /\ rack = <<>>
  /\ rack0 = <<>>
  /\ pass = "across"
  /\ cc_cells = <<>>
  /\ ci = 1
  /\ li = 1
  /\ cross_check = <<>>
  /\ anchors = <<>>
  /\ ai = 1
  /\ stack = <<>>
  /\ placed = EmptyMove
  /\ out = <<>>
  /\ shared = {}
  /\ yielded = FALSE
  /\ words = <<>>
  /\ wi = 1

\* what the operations of a Move or of a Tree leave alone
ValueFrame ==
  << cells, cells0, rack, rack0, pass, cc_cells, ci, li, cross_check, anchors, ai,
     stack, placed, out, shared, yielded, words, wi, ScoreVars, BoardsVars,
     WalkVars, GameVars >>

InitAnchored ==
  /\ args \in AnchoredArgs
  /\ pc = "anchored_start"
  /\ move = EmptyMove
  /\ result = <<>>
  /\ the_tree = <<>>
  /\ other = <<>>
  /\ cells = EmptyArray
  /\ cells0 = EmptyArray
  /\ GeneratorIdle
  /\ ScoreIdle
  /\ BoardsIdle
  /\ WalkIdle
  /\ GameIdle

\* Move.anchored_to_moves(word, anchor_pos, anchor_index, across)
AnchoredToMoves ==
  /\ pc = "anchored_start"
  /\ move' = anchored_to_moves(args.word, args.anchor_pos, args.anchor_index, args.across)
  /\ pc' = "anchored_made"
  /\ UNCHANGED <<args, result, the_tree, other>>
  /\ UNCHANGED ValueFrame

\* .get_word(): sorts the tiles of the move in place and joins their letters
GetWord ==
  /\ pc = "anchored_made"
  /\ move' = SortByPos(move)
  /\ result' = get_word(move)
  /\ pc' = "anchored_done"
  /\ UNCHANGED <<args, the_tree, other>>
  /\ UNCHANGED ValueFrame

NextAnchored ==
  \/ AnchoredToMoves
  \/ GetWord

SpecAnchored == InitAnchored /\ [][NextAnchored]_vars

(***************************************************************************)
(* Tree.build_from_list followed by Tree.get_node or Tree.lookup           *)
(***************************************************************************)
MaxWords == 2

TreeWords ==
  { <<>>, <<"A">>, <<"a", "t">>, <<"A", "T">>, <<"T", "a">>, <<"A", "t", "a">> }

TreePaths ==
  TreeWords \cup { <<"a">>, <<"T">>, <<"t", "A">>, <<"A", "A">>, <<"a", "T", "a">>,
                   <<"A", "T", "A", "T">> }

TreeArgs ==
  [word_list : UNION { [1..n -> TreeWords] : n \in 0..MaxWords }, path : TreePaths]

InitTree ==
  /\ args \in TreeArgs
  /\ pc = "tree_start"
  /\ the_tree = EmptyTree
  /\ result = <<>>
  /\ move = EmptyMove
  /\ other = <<>>
  /\ cells = EmptyArray
  /\ cells0 = EmptyArray
  /\ GeneratorIdle
  /\ ScoreIdle
  /\ BoardsIdle
  /\ WalkIdle
  /\ GameIdle

\* Tree.build_from_list(word_list)
BuildFromList ==
  /\ pc = "tree_start"
  /\ the_tree' = build_from_list(args.word_list)
  /\ pc' = "tree_built"
  /\ UNCHANGED <<args, result, move, other>>
  /\ UNCHANGED ValueFrame

\* tree.get_node(path): the node, or the KeyError raised
TreeGetNode ==
  /\ pc = "tree_built"
  /\ result' = get_node(the_tree, args.path)
  /\ pc' = "tree_got_node"
  /\ UNCHANGED <<args, the_tree, move, other>>
  /\ UNCHANGED ValueFrame

\* tree.lookup(word): the node, or None
TreeLookup ==
  /\ pc = "tree_built"
  /\ result' = lookup(the_tree, args.path)
  /\ pc' = "tree_looked_up"
  /\ UNCHANGED <<args, the_tree, move, other>>
  /\ UNCHANGED ValueFrame

NextTree ==
  \/ BuildFromList
  \/ TreeGetNode
  \/ TreeLookup

SpecTree == InitTree /\ [][NextTree]_vars

(***************************************************************************)
(* Two calls of calc_all_moves(rack) on one MoveGenerator, each consumed   *)
(* to its end: `result` keeps the moves the first call yielded             *)
(***************************************************************************)
TwiceRackSet == { <<>>, <<"S">>, <<"A", "S">>, <<"S", " ">>, <<" ", "A">> }

TwiceInputs == (BoardSet \X TwiceRackSet) \cup {<<EmptyArray, BingoRack>>}

InitTwice ==
  /\ \E input \in TwiceInputs : cells = input[1] /\ rack = input[2]
  /\ pc = "start"
  /\ pass = "across"
  /\ cc_cells = <<>>
  /\ ci = 1
  /\ li = 1
  /\ cross_check = <<>>
  /\ anchors = <<>>
  /\ ai = 1
  /\ stack = <<>>
  /\ placed = EmptyMove
  /\ out = <<>>
  /\ shared = {}
  /\ yielded = FALSE
  /\ cells0 = cells
  /\ rack0 = rack
  /\ move = EmptyMove
  /\ words = <<>>
  /\ wi = 1
  /\ ScoreIdle
  /\ BoardsIdle
  /\ WalkIdle
  /\ GameIdle
  /\ ValueIdle

\* The first call has ended; calc_all_moves is called again on the generator,
\* with the rack list the first call was given (as that call left it) or with
\* a new list equal to what that list was.  The new call has new locals.
CallAgain ==
  /\ pc = "done"
  /\ result = <<>>
  /\ result' = out
  /\ rack' \in {rack, rack0}
  /\ pc' = "start"
  /\ pass' = "across"
  /\ cc_cells' = <<>>
  /\ ci' = 1
  /\ li' = 1
  /\ cross_check' = <<>>
  /\ anchors' = <<>>
  /\ ai' = 1
  /\ stack' = <<>>
  /\ placed' = EmptyMove
  /\ out' = <<>>
  /\ shared' = {}
  /\ yielded' = FALSE
  /\ UNCHANGED <<cells, cells0, rack0, move, words, wi, args, the_tree, other>>
  /\ UNCHANGED <<ScoreVars, BoardsVars, WalkVars, GameVars>>

NextTwice ==
  \/ Next
  \/ CallAgain

SpecTwice == InitTwice /\ [][NextTwice]_vars

(***************************************************************************)
(* Two Move objects: constructed, appended to with +=, read with get_word, *)
(* and compared with ==                                                    *)
(***************************************************************************)
EqTiles == { <<"A", <<7, 7>>>>, <<"S", <<7, 8>>>>, <<"a", <<7, 7>>>> }

\* Move(*tiles): self.tiles = list(tiles)
MovesOf == UNION { [1..n -> EqTiles] : n \in 0..MaxMove }

\* Move.__eq__, which @dataclass generates from the one field: the tiles lists
\* are compared, element by element in order
move_eq(tiles, other_tiles) == tiles = other_tiles

InitMoves ==
  /\ move \in MovesOf
  /\ other \in MovesOf
  /\ pc = "moves"
  /\ args = <<>>
  /\ result = <<>>
  /\ the_tree = <<>>
  /\ cells = EmptyArray
  /\ cells0 = EmptyArray
  /\ GeneratorIdle
  /\ ScoreIdle
  /\ BoardsIdle
  /\ WalkIdle
  /\ GameIdle

\* move += tile
IaddMove ==
  /\ pc = "moves"
  /\ Len(move) < MaxMove
  /\ \E tile \in EqTiles : move' = iadd(move, tile)
  /\ UNCHANGED <<other, pc, args, result, the_tree>>
  /\ UNCHANGED ValueFrame

\* other += tile
IaddOther ==
  /\ pc = "moves"
  /\ Len(other) < MaxMove
  /\ \E tile \in EqTiles : other' = iadd(other, tile)
  /\ UNCHANGED <<move, pc, args, result, the_tree>>
  /\ UNCHANGED ValueFrame

\* move.get_word(): the tiles are sorted in place
GetWordMove ==
  /\ pc = "moves"
  /\ move' = SortByPos(move)
  /\ result' = get_word(move)
  /\ UNCHANGED <<other, pc, args, the_tree>>
  /\ UNCHANGED ValueFrame

\* other.get_word()
GetWordOther ==
  /\ pc = "moves"
  /\ other' = SortByPos(other)
  /\ result' = get_word(other)
  /\ UNCHANGED <<move, pc, args, the_tree>>
  /\ UNCHANGED ValueFrame

NextMoves ==
  \/ IaddMove
  \/ IaddOther
  \/ GetWordMove
  \/ GetWordOther

SpecMoves == InitMoves /\ [][NextMoves]_vars

(***************************************************************************)
(* One call of Board.traverse_until_condition or of                        *)
(* Board.traverse_axis_until_condition, consumed to its end.  `result` is  *)
(* the list of the <<square, position>> pairs yielded so far.              *)
(***************************************************************************)
WalkStarts ==
  { <<0, 0>>, <<0, 14>>, <<14, 14>>, <<12, 0>>, <<7, 0>>, <<7, 6>>, <<7, 7>>,
    <<7, 8>>, <<8, 8>>, <<7, 12>> }

WalkSteps == { <<0, 1>>, <<0, -1>>, <<1, 0>>, <<-1, 0>>, <<1, 1>>, <<0, 2>> }

WalkStops ==
  { StopAtEmpty,
    StopAtAnchorOrTile(<<>>),
    StopAtAnchorOrTile(<< <<7, 4>>, <<10, 8>> >>),
    StopOutsideMove(<< <<"S", <<7, 10>> >>, <<"A", <<6, 8>> >> >>) }

\* axis: the call is traverse_axis_until_condition(start, direction, condition)
TraverseArgs ==
  [axis : BOOLEAN, start : WalkStarts, direction : WalkSteps, condition : WalkStops]

WalkBoard == [data |-> cells, transposed |-> FALSE]

InitTraverse ==
  /\ cells \in BoardSet
  /\ cells0 = cells
  /\ args \in TraverseArgs
  /\ pc = "walk_start"
  /\ move = EmptyMove
  /\ result = <<>>
  /\ the_tree = <<>>
  /\ other = <<>>
  /\ GeneratorIdle
  /\ ScoreIdle
  /\ BoardsIdle
  /\ WalkIdle
  /\ GameIdle

\* what a traversal leaves alone
TraverseFrame ==
  << cells, cells0, rack, rack0, pass, cc_cells, ci, li, cross_check, anchors, ai,
     stack, placed, out, shared, yielded, words, wi, move, args, the_tree, other,
     ScoreVars, BoardsVars, GameVars >>

\* line 265: current_pos = start; line 311 walks backwards first
TraverseBegin ==
  /\ pc = "walk_start"
  /\ current_position' = args.start
  /\ pc' = IF args.axis THEN "walk_back" ELSE "walk_forth"
  /\ UNCHANGED result
  /\ UNCHANGED TraverseFrame

\* the direction of the running traversal: line 311 negates the axis
Heading ==
  IF pc = "walk_back" THEN <<-args.direction[1], -args.direction[2]>> ELSE args.direction

Walking == pc \in {"walk_back", "walk_forth"}

\* line 268
Stepped == add_pos(current_position, Heading)

\* where the traversal goes when its loop breaks
AfterBreak == IF pc = "walk_back" THEN "walk_turn" ELSE "walk_done"

\* lines 269-270: the loop breaks at the edge of the board
TraverseLeavesBoard ==
  /\ Walking
  /\ out_of_bounds(Stepped)
  /\ current_position' = Stepped
  /\ pc' = AfterBreak
  /\ UNCHANGED result
  /\ UNCHANGED TraverseFrame

\* lines 273-275: the loop breaks at a cell that satisfies the stop condition
TraverseStops ==
  /\ Walking
  /\ ~out_of_bounds(Stepped)
  /\ stop_condition(args.condition, WalkBoard, get_square(WalkBoard, Stepped), Stepped)
  /\ current_position' = Stepped
  /\ pc' = AfterBreak
  /\ UNCHANGED result
  /\ UNCHANGED TraverseFrame

\* line 277: yield current_square, current_pos
TraverseYield ==
  /\ Walking
  /\ ~out_of_bounds(Stepped)
  /\ ~stop_condition(args.condition, WalkBoard, get_square(WalkBoard, Stepped), Stepped)
  /\ current_position' = Stepped
  /\ result' = Append(result, <<get_square(WalkBoard, Stepped), Stepped>>)
  /\ UNCHANGED pc
  /\ UNCHANGED TraverseFrame

\* lines 311-313 with the [::-1] left out
TraverseTurn_unreversed ==
  /\ pc = "walk_turn"
  /\ result' = Append(result, <<get_square(WalkBoard, args.start), args.start>>)
  /\ current_position' = args.start
  /\ pc' = "walk_forth"
  /\ UNCHANGED TraverseFrame

\* lines 311-314: the backward list is yielded reversed, then the cell at pos,
\* and the forward traversal starts from pos
TraverseTurn ==
  /\ pc = "walk_turn"
  /\ result' = Append(Reverse(result), <<get_square(WalkBoard, args.start), args.start>>)
  /\ current_position' = args.start
  /\ pc' = "walk_forth"
  /\ UNCHANGED TraverseFrame

NextTraverse ==
  \/ TraverseBegin
  \/ TraverseLeavesBoard
  \/ TraverseStops
  \/ TraverseYield
  \/ TraverseTurn

SpecTraverse == InitTraverse /\ [][NextTraverse]_vars

(***************************************************************************)
(* PartialGame, in its two variants: scrabble/game.py, which leaves the    *)
(* rack alone, and game.py, which takes the observer's tiles from the rack *)
(* and has set_rack.  rules.TILE_POOL is read from rules.json: each tile   *)
(* repeated by its count, the standard counts.                             *)
(***************************************************************************)
TILE_COUNT ==
  LET counts == <<9, 2, 2, 4, 12, 2, 3, 2, 9, 1, 1, 4, 2, 6, 8, 2, 1, 6, 4, 6, 4, 2, 2, 1, 2, 1>>
  IN  [tile \in Range(UpperCase) \cup {" "} |->
         IF tile = " " THEN 2
         ELSE counts[CHOOSE i \in DOMAIN UpperCase : UpperCase[i] = tile]]

\* rules.py lines 18-20: TILE_POOL.extend([tile] * count) for each tile
RECURSIVE PoolFrom(_, _)
PoolFrom(tile_list, i) ==
  IF i > Len(tile_list) THEN <<>>
  ELSE [k \in 1..TILE_COUNT[tile_list[i]] |-> tile_list[i]] \o PoolFrom(tile_list, i + 1)

TILE_POOL == PoolFrom(UpperCase \o <<" ">>, 1)

\* Every character a tile of a move can be
AnyTile == Range(UpperCase) \cup Range(LowerCase) \cup {" "}

\* How many times each tile is in the list
Tally(list) == [tile \in AnyTile |-> Cardinality({ i \in DOMAIN list : list[i] = tile })]

\* len(pool)
PoolSize(the_pool) ==
  LET RECURSIVE Sum(_)
      Sum(tile_set) ==
        IF tile_set = {} THEN 0
        ELSE LET tile == CHOOSE x \in tile_set : TRUE
             IN  the_pool[tile] + Sum(tile_set \ {tile})
  IN  Sum(AnyTile)

\* pool.remove(tile), pool.append(tile), tile in pool
pool_remove(the_pool, tile) == [the_pool EXCEPT ![tile] = @ - 1]

pool_append(the_pool, tile) == [the_pool EXCEPT ![tile] = @ + 1]

pool_has(the_pool, tile) == the_pool[tile] > 0

MaxHistory == 2

MaxPool == 101

MaxPlayers == 2

RackLimit == 7

\* The moves handed to make_move: Z is a tile the pool has once, a lowercase
\* tile is a blank put down as a letter
GameMoves ==
  { EmptyMove,
    << <<"Z", <<7, 7>>>>, <<"A", <<7, 8>>>> >>,
    << <<"A", <<9, 7>>>>, <<"Z", <<9, 8>>>> >>,
    << <<"A", <<6, 7>>>>, <<"s", <<6, 8>>>> >> }

GameRacks ==
  { <<"Z", "A", "A", "T">>, <<"A", "A", "A", "A", "A", "A", "A", "A">> }

\* file: the variant; total_players and current_player: the arguments of
\* __init__ (scrabble/game.py takes no current_player and starts at 0)
GameArgs ==
  { a \in [file : {"scrabble/game.py", "game.py"},
           total_players : 2..MaxPlayers,
           current_player : 0..(MaxPlayers - 1)] :
      /\ a.current_player < a.total_players
      /\ a.file = "scrabble/game.py" => a.current_player = 0 }

InitGame ==
  /\ args \in GameArgs
  /\ cells = EmptyArray
  /\ cells0 = EmptyArray
  /\ pool = Tally(TILE_POOL)
  /\ current_player = args.current_player
  /\ history = <<>>
  /\ before = <<>>
  /\ pc = "game"
  /\ move = EmptyMove
  /\ result = <<>>
  /\ the_tree = <<>>
  /\ other = <<>>
  /\ GeneratorIdle
  /\ ScoreIdle
  /\ BoardsIdle
  /\ WalkIdle

\* what the operations of a PartialGame leave alone
GameFrame ==
  << cells0, rack0, pass, cc_cells, ci, li, cross_check, anchors, ai, stack, placed,
     out, shared, yielded, words, wi, args, the_tree, other, ScoreVars, BoardsVars,
     WalkVars >>

GameBoard == [data |-> cells, transposed |-> FALSE]

\* The fields of the game
GameState ==
  [board |-> cells, rack |-> rack, pool |-> pool, current_player |-> current_player,
   history |-> history]

\* game.py lines 49-60: set_rack(rack)
GameSetRack ==
  /\ args.file = "game.py"
  /\ \E new_rack \in GameRacks :
       IF Len(new_rack) > RackLimit
       THEN result' = <<"ValueError">> /\ rack' = rack
       ELSE result' = None /\ rack' = new_rack
  /\ pc' = "game"
  /\ before' = <<>>
  /\ move' = EmptyMove
  /\ UNCHANGED <<cells, pool, current_player, history>>
  /\ UNCHANGED GameFrame

\* game.py line 90: only the observer's tiles leave the rack
takes_from_rack == args.file = "game.py" /\ current_player = 0

\* scrabble/game.py lines 35-36 and game.py lines 85-96: the loop over the
\* tiles of the move from the i-th on; it ends at the first tile that the pool,
\* or the observer's rack, does not hold
RECURSIVE take_tiles(_, _, _, _)
take_tiles(the_pool, the_rack, tiles, i) ==
  IF i > Len(tiles) THEN [pool |-> the_pool, rack |-> the_rack, raised |-> FALSE]
  ELSE IF ~pool_has(the_pool, tiles[i][1])
  THEN [pool |-> the_pool, rack |-> the_rack, raised |-> TRUE]
  ELSE IF takes_from_rack /\ ~Has(the_rack, tiles[i][1])
  THEN [pool |-> pool_remove(the_pool, tiles[i][1]), rack |-> the_rack, raised |-> TRUE]
  ELSE take_tiles(pool_remove(the_pool, tiles[i][1]),
                  IF takes_from_rack THEN list_remove(the_rack, tiles[i][1]) ELSE the_rack,
                  tiles, i + 1)

\* scrabble/game.py lines 25-37 and game.py lines 75-97: make_move(move)
GameMakeMove ==
  /\ Len(history) < MaxHistory
  /\ \E new_move \in GameMoves :
       \E taken \in {take_tiles(pool, rack, new_move, 1)} :
         /\ move' = new_move
         /\ history' = Append(history, new_move)
         /\ cells' = make_move(GameBoard, new_move).data
         /\ pool' = taken.pool
         /\ rack' = taken.rack
         /\ IF taken.raised
            THEN result' = <<"ValueError">> /\ current_player' = current_player
            ELSE result' = None
                 /\ current_player' = (current_player + 1) % args.total_players
  /\ before' = GameState
  /\ pc' = "made"
  /\ UNCHANGED GameFrame

\* the tiles of the move go back to the pool: pool.append(tile) for each
RECURSIVE give_back(_, _, _)
give_back(the_pool, tiles, i) ==
  IF i > Len(tiles) THEN the_pool
  ELSE give_back(pool_append(the_pool, tiles[i][1]), tiles, i + 1)

\* scrabble/game.py lines 39-45 and game.py lines 99-108: undo_last_move() with
\* a move to undo
GameUndo ==
  /\ history # <<>>
  /\ \E last_move \in {history[Len(history)]} :
       /\ history' = SubSeq(history, 1, Len(history) - 1)
       /\ cells' = unmake_move(GameBoard, last_move).data
       /\ pool' = give_back(pool, last_move, 1)
       /\ PoolSize(give_back(pool, last_move, 1)) <= MaxPool
  /\ current_player' = (current_player - 1) % args.total_players
  /\ result' = None
  /\ IF pc = "made"
     THEN pc' = "undone" /\ UNCHANGED <<before, move>>
     ELSE pc' = "game" /\ before' = <<>> /\ move' = EmptyMove
  /\ UNCHANGED rack
  /\ UNCHANGED GameFrame

\* undo_last_move() with no move to undo: history.pop() raises in
\* scrabble/game.py (line 41); game.py tests the history first (line 102)
GameUndoNothing ==
  /\ history = <<>>
  /\ result' = IF args.file = "game.py" THEN None ELSE <<"IndexError">>
  /\ pc' = "game"
  /\ before' = <<>>
  /\ move' = EmptyMove
  /\ UNCHANGED <<cells, rack, pool, current_player, history>>
  /\ UNCHANGED GameFrame

NextGame ==
  \/ GameSetRack
  \/ GameMakeMove
  \/ GameUndo
  \/ GameUndoNothing

SpecGame == InitGame /\ [][NextGame]_vars

(***************************************************************************)
(* Properties of the stream of calc_all_moves                              *)
(***************************************************************************)
\* The board the caller gave, as the caller sees it
InputBoard == [data |-> cells0, transposed |-> FALSE]

\* The move the consumer has just received
LastMove == out[Len(out)]

Count(list, x) == Cardinality({i \in DOMAIN list : list[i] = x})

IsBlankTile(tile) == tile \in Range(LowerCase)

\* The rack tile a placed tile came from
RackTileOf(tile) == IF IsBlankTile(tile) THEN " " ELSE tile

\* C1: every word get_words_formed yields for a move of the stream, on the
\* board the generator was given, is found by lexicon.lookup
C1_WordsInLexicon ==
  yielded =>
    \A w \in Range(WordsFormed(InputBoard, LastMove)) :
      lookup(dictionary, get_word(w)) # None

\* C3: the tiles of a yielded move, each lowercase tile counted as one blank,
\* are a sub-multiset of the rack as it was when the call began
C3_TilesFromRack ==
  yielded =>
    \A x \in Range(UpperCase) \cup {" "} :
      Cardinality({i \in DOMAIN LastMove : RackTileOf(LastMove[i][1]) = x}) <= Count(rack0, x)

\* a move with a blank and a lettered tile was yielded from a rack with one blank
C3_Witness ==
  /\ yielded
  /\ Len(LastMove) = 2
  /\ Count(rack0, " ") = 1
  /\ \E i, j \in DOMAIN LastMove : IsBlankTile(LastMove[i][1]) /\ ~IsBlankTile(LastMove[j][1])

\* C4: every position of a yielded move is on the board and empty on the input
\* board, and no two tiles of the move share a position
C4_OnEmptySquares ==
  yielded =>
    \A i \in DOMAIN LastMove :
      /\ ~out_of_bounds(LastMove[i][2])
      /\ cells0[LastMove[i][2]] = " "
      /\ \A j \in DOMAIN LastMove : j # i => LastMove[j][2] # LastMove[i][2]

\* a two-tile move of the down pass was yielded on a board that holds tiles
C4_Witness ==
  /\ yielded
  /\ pass = "down"
  /\ Len(LastMove) = 2
  /\ cells0 # EmptyArray

Between(tiles) ==
  LET rows == {tiles[i][2][1] : i \in DOMAIN tiles}
      cols == {tiles[i][2][2] : i \in DOMAIN tiles}
  IN  { p \in Pos : /\ \E r1, r2 \in rows : r1 <= p[1] /\ p[1] <= r2
                    /\ \E c1, c2 \in cols : c1 <= p[2] /\ p[2] <= c2 }

\* C6: a yielded move with tiles lies in one row or one column, and every cell
\* between its first and last tile is a cell of the move or holds a tile of
\* the input board
C6_OneLineNoGap ==
  (yielded /\ LastMove # EmptyMove) =>
    /\ \/ \A i \in DOMAIN LastMove : LastMove[i][2][1] = LastMove[1][2][1]
       \/ \A i \in DOMAIN LastMove : LastMove[i][2][2] = LastMove[1][2][2]
    /\ \A p \in Between(LastMove) : Has(all_positions(LastMove), p) \/ cells0[p] # " "

\* a move was yielded whose two tiles stand on either side of a board tile
C6_Witness ==
  /\ yielded
  /\ Len(LastMove) = 2
  /\ \E p \in Between(LastMove) : ~Has(all_positions(LastMove), p) /\ cells0[p] # " "

\* C8: whenever a move is yielded, and when the stream has ended, every cell
\* of the board holds what it held when the call began
C8_BoardRestored == (yielded \/ pc = "done") => cells = cells0

\* a move is yielded in the down pass, after the cross-check computation wrote
\* letters through the transposed board
C8_Witness ==
  /\ yielded
  /\ pass = "down"
  /\ Len(cc_cells) > 0
  /\ LastMove # EmptyMove
  /\ cells = cells0

\* C9: when the stream has ended the rack holds the multiset of tiles it held
\* when the call began
C9_RackRestored ==
  pc = "done" =>
    /\ Len(rack) = Len(rack0)
    /\ \A x \in Range(rack0) \cup Range(rack) : Count(rack, x) = Count(rack0, x)

\* the stream has ended after tiles were taken from the rack and put back: the
\* rack is in another order
C9_Witness ==
  /\ pc = "done"
  /\ Len(out) > 1
  /\ rack # rack0

(***************************************************************************)
(* The legal plays of a board and a rack, stated without the generator:    *)
(* tiles of the rack on the first n empty squares from a square along a    *)
(* row or a column.                                                        *)
(***************************************************************************)
\* the words of the lexicon
LexiconWords == Range(WordList)

\* the letters a blank can stand for in a word of the lexicon
LexiconLetters == UNION { Range(WordList[k]) : k \in DOMAIN WordList }

\* the first n empty squares of the array from p on in the direction, fewer
\* when the edge of the array comes first
RECURSIVE FreeSquares(_, _, _, _)
FreeSquares(array, p, direction, n) ==
  IF n = 0 \/ out_of_bounds(p) THEN <<>>
  ELSE IF array[p] = " "
       THEN <<p>> \o FreeSquares(array, add_pos(p, direction), direction, n - 1)
       ELSE FreeSquares(array, add_pos(p, direction), direction, n)

\* a square with a tile of the array next to it
Touches(array, p) ==
  \E d \in {<<0, 1>>, <<0, -1>>, <<1, 0>>, <<-1, 0>>} :
    ~out_of_bounds(add_pos(p, d)) /\ array[add_pos(p, d)] # " "

\* the squares join the tiles of the array, or cover the centre of an empty one
Connected(array, squares) ==
  IF array = EmptyArray
  THEN Has(squares, <<CentreIndex, CentreIndex>>)
  ELSE \E i \in DOMAIN squares : Touches(array, squares[i])

\* the ways to take n tiles from the rack, a blank standing for any letter
Draws(the_rack, n) ==
  LET lettered == Range(the_rack) \ {" "}
      blanks   == IF Has(the_rack, " ") THEN {Lower(x) : x \in LexiconLetters} ELSE {}
  IN  { f \in [1..n -> lettered \cup blanks] :
          \A x \in Range(the_rack) :
            Cardinality({i \in 1..n : RackTileOf(f[i]) = x}) <= Count(the_rack, x) }

\* the tile on square p once the play is made on the array
TileAfter(array, play, p) ==
  IF \E i \in DOMAIN play : play[i][2] = p
  THEN play[CHOOSE i \in DOMAIN play : play[i][2] = p][1]
  ELSE array[p]

\* the word of the unbroken run of tiles through p along the axis, the play made
RunWord(array, play, p, axis) ==
  LET at(k)   == <<p[1] + k * axis[1], p[2] + k * axis[2]>>
      full(k) == ~out_of_bounds(at(k)) /\ TileAfter(array, play, at(k)) # " "
      lo == CHOOSE k \in 0..MaxIndex : (\A j \in 1..k : full(-j)) /\ ~full(-(k + 1))
      hi == CHOOSE k \in 0..MaxIndex : (\A j \in 1..k : full(j)) /\ ~full(k + 1)
  IN  [i \in 1..(lo + hi + 1) |-> Upper(TileAfter(array, play, at(i - 1 - lo)))]

\* the play's word along its axis and every word of two or more tiles across
\* it are words of the lexicon
PlayIsLegal(array, play, axis) ==
  /\ RunWord(array, play, play[1][2], axis) \in LexiconWords
  /\ \A i \in DOMAIN play :
       LET crossing == RunWord(array, play, play[i][2], <<axis[2], axis[1]>>)
       IN  Len(crossing) >= 2 => crossing \in LexiconWords

\* the legal plays of n tiles along the axis
LegalPlaysOf(array, the_rack, n, axis) ==
  LET draws == Draws(the_rack, n)
  IN  UNION { LET squares == FreeSquares(array, p, axis, n)
              IN  IF Len(squares) = n /\ Connected(array, squares)
                  THEN { play \in { [i \in 1..n |-> <<f[i], squares[i]>>] : f \in draws } :
                           PlayIsLegal(array, play, axis) }
                  ELSE {} :
              p \in { q \in Pos : array[q] = " " } }

LegalPlays(array, the_rack) ==
  UNION { LegalPlaysOf(array, the_rack, n, axis) :
          n \in 1..(IF Len(the_rack) < MaxPlaced THEN Len(the_rack) ELSE MaxPlaced),
          axis \in {<<0, 1>>, <<1, 0>>} }

\* C2: every legal play of the input board and rack is in the stream
C2_EveryLegalPlay ==
  pc = "done" =>
    \A play \in LegalPlays(cells0, rack0) :
      \E i \in DOMAIN out : Range(out[i]) = Range(play) /\ Len(out[i]) = Len(play)

\* the spec's scenario: CAT at (7,7)..(7,9), rack [S], and S at (7,10) is a
\* legal play that the stream has delivered
C2_Witness ==
  /\ pc = "done"
  /\ rack0 = <<"S">>
  /\ cells0[<<7, 7>>] = "C" /\ cells0[<<7, 8>>] = "A" /\ cells0[<<7, 9>>] = "T"
  /\ cells0[<<8, 8>>] = " "
  /\ << <<"S", <<7, 10>> >> >> \in LegalPlays(cells0, rack0)
  /\ \E i \in DOMAIN out : out[i] = << <<"S", <<7, 10>> >> >>

\* an anchor of the input board whose tiles to the left are no path of the trie
NoPathAnchor(brd) ==
  \E i \in DOMAIN calc_anchors(brd) :
    /\ left_limit(brd, calc_anchors(brd), calc_anchors(brd)[i]) = 0
    /\ get_node(dictionary, existing_left_part(brd, calc_anchors(brd)[i])) = KeyError

\* How far a call of _left_part or _right_part has got: just entered, past its
\* yield, or back from the recursive call of its choice-th try
FrameRank(frame) ==
  IF frame.at = "enter" THEN 0
  ELSE IF frame.at = "yielded" THEN 1
  ELSE IF frame.at = "occupied_ret" THEN 2
  ELSE 1 + frame.choice

StackRanks == [i \in DOMAIN stack |-> FrameRank(stack[i])]

\* How far calc_all_moves has got outside the recursion: the pass, the stage of
\* the pass, the cell and letter of the cross-check loop, the anchor of the
\* anchor loop
Clock ==
  << IF pass = "across" THEN 0 ELSE 1,
     CASE pc = "start" -> 0
       [] pc \in {"cc_write", "cc_read"} -> 1
       [] pc \in {"anchors", "search"} -> 2
       [] pc = "passed" -> 3
       [] pc = "done" -> 4
       [] OTHER -> 5,
     ci, li,
     IF pc = "cc_read" THEN 1 ELSE 0,
     ai,
     IF pc = "search" THEN 1 ELSE 0 >>

\* a comes before b in the order of the dictionary, a and b of one length
ClockBefore(a, b) ==
  \E i \in DOMAIN a : a[i] < b[i] /\ \A j \in 1..(i - 1) : a[j] = b[j]

\* s comes before t in a depth-first walk: they part at a call that is further
\* on in t, or t is s with its innermost calls returned
StackBefore(s, t) ==
  \E i \in DOMAIN s :
    /\ \A j \in 1..(i - 1) : j \in DOMAIN t /\ s[j] = t[j]
    /\ i \notin DOMAIN t \/ s[i] < t[i]

\* every step of the generator moves it strictly forward
Progress ==
  \/ ClockBefore(Clock, Clock')
  \/ Clock = Clock' /\ StackBefore(StackRanks, StackRanks')

\* the loops and the recursion are bounded: the measure of Progress has finitely
\* many values
Bounded ==
  /\ ci \in 1..(BoardSize * BoardSize + 1)
  /\ ai \in 1..(BoardSize * BoardSize + 1)
  /\ li \in 1..Len(UpperCase)
  /\ Len(stack) <= BoardSize + LeftCap + 2
  /\ \A i \in DOMAIN stack : stack[i].choice <= 2 * Len(UpperCase)

\* C10: calc_all_moves raises nothing and its stream ends, on every board and
\* rack, also when tiles of the board spell no path of the trie: no exception
\* leaves the generator, the generator can always take a step until the
\* stream has ended, and every step moves it strictly forward in a bounded
\* measure, so that no run goes on for ever
C10_TotalAndTerminates ==
  /\ [](pc # "raised" /\ Bounded /\ (pc = "done" \/ ENABLED Next))
  /\ [][Progress]_vars

\* the stream has ended on a board with a run of tiles that is no path of the trie
C10_Witness == pc = "done" /\ NoPathAnchor(InputBoard)

(***************************************************************************)
(* Properties of get_words_formed                                          *)
(***************************************************************************)
\* C7 as claimed: for any move, also one on a square that holds a tile, the
\* board is cell for cell what it was once get_words_formed is consumed
C7_BoardUnchangedAnyMove == pc = "words_done" => cells = cells0

OnEmptySquares(array, tiles) == \A i \in DOMAIN tiles : array[tiles[i][2]] = " "

\* C7 amended: for any move whose squares are all empty on the board (on one
\* line or not, a square used twice or not), the board is cell for cell what it
\* was once get_words_formed is consumed
C7_BoardUnchangedOnEmpty ==
  (pc = "words_done" /\ OnEmptySquares(cells0, move)) => cells = cells0

\* get_words_formed was consumed for a two-tile move on empty squares that
\* formed a cross word, and the board is as it was
C7_Witness ==
  /\ pc = "words_done"
  /\ Len(move) = 2
  /\ move[1][2] # move[2][2]
  /\ OnEmptySquares(cells0, move)
  /\ Len(words) >= 2
  /\ cells = cells0

\* The stepwise run of get_words_formed yields the words of WordsFormed and
\* leaves the board of BoardAfterWords
WordsAgree ==
  pc = "words_done" =>
    /\ words = WordsFormed(InputBoard, move)
    /\ cells = BoardAfterWords(InputBoard, move).data

(***************************************************************************)
(* Properties of calc_score                                                *)
(***************************************************************************)
RECURSIVE SeqSum(_)
SeqSum(numbers) == IF numbers = <<>> THEN 0 ELSE numbers[1] + SeqSum(Tail(numbers))

RECURSIVE SeqProduct(_)
SeqProduct(numbers) == IF numbers = <<>> THEN 1 ELSE numbers[1] * SeqProduct(Tail(numbers))

\* the position is one the move places a tile on
PlacedBy(tiles, pos) == \E i \in DOMAIN tiles : tiles[i][2] = pos

\* the points of a tile: a lowercase tile is a blank and has none
FaceValue(tile) == IF tile \in Range(LowerCase) THEN 0 ELSE TILE_VALUE[tile]

\* the score of one word of a move: the tiles' points, each times the letter
\* premium of its square when the move places it, times the word premiums of the
\* squares the move places tiles on
WordScore(word, tiles) ==
  SeqSum([k \in DOMAIN word |->
            FaceValue(word[k][1]) *
              (IF ~PlacedBy(tiles, word[k][2]) THEN 1
               ELSE IF word[k][2] \in DL THEN 2
               ELSE IF word[k][2] \in TL THEN 3 ELSE 1)])
    * SeqProduct([k \in DOMAIN word |->
                    IF ~PlacedBy(tiles, word[k][2]) THEN 1
                    ELSE IF word[k][2] \in DW THEN 2
                    ELSE IF word[k][2] \in TW THEN 3 ELSE 1])

\* the sum of the scores of the words get_words_formed yields for the move
WordScores(brd, tiles) ==
  SeqSum([j \in DOMAIN WordsFormed(brd, tiles) |-> WordScore(WordsFormed(brd, tiles)[j], tiles)])

C12_BingoBonusIffSeven ==
  pc = "score_done" =>
    /\ (total_score = WordScores(InputBoard, move) + 50) <=> (Len(move) = 7)
    /\ Len(move) <= 6 => total_score = WordScores(InputBoard, move)
    /\ Len(move) = 0 => total_score = 0

\* a move of seven tiles was scored, and one of eight, with and without the bonus
C12_Witness ==
  /\ pc = "score_done"
  /\ Len(move) = 7
  /\ total_score = WordScores(InputBoard, move) + 50
  /\ total_score >= 50

\* the opening BANANA of the scenario
Banana == anchored_to_moves(<<"B","A","N","A","N","A">>, <<7, 7>>, 0, TRUE)

\* C13 as claimed: on the empty board BANANA from (7,7) across scores 16
C13_BananaScores16 ==
  (pc = "score_done" /\ cells0 = EmptyArray /\ move = Banana) => total_score = 16

\* C13 amended: on the empty board BANANA from (7,7) across scores 18, its second
\* N standing on the DL square (7,11): (3 + 1 + 1 + 1 + 2 * 1 + 1) * 2
C13_BananaScores18 ==
  (pc = "score_done" /\ cells0 = EmptyArray /\ move = Banana) => total_score = 18

C13_Witness ==
  /\ pc = "score_done"
  /\ cells0 = EmptyArray
  /\ move = Banana
  /\ all_positions(move) = << <<7, 7>>, <<7, 8>>, <<7, 9>>, <<7, 10>>, <<7, 11>>, <<7, 12>> >>
  /\ <<7, 11>> \in DL
  /\ total_score = 18

(***************************************************************************)
(* Properties of Board.copy and Board.transpose                            *)
(***************************************************************************)
\* what a reader of the board sees: get_square at every position
Contents(brd) == [p \in Pos |-> get_square(brd, p)]

\* what the returned board held when it was returned
DerivedContents0 ==
  IF derived.transposed THEN [p \in Pos |-> cells0[<<p[2], p[1]>>]] ELSE cells0

\* C14: the board copy() or transpose() returned is independent of the original:
\* as long as only the returned board is written the original keeps every cell,
\* and as long as only the original is written the returned board keeps every
\* cell
C14_CopyAndTransposeIndependent ==
  pc = "board_derived" =>
    /\ (\A i \in DOMAIN wrote : wrote[i] = "derived") => Contents(TheBoard) = cells0
    /\ (\A i \in DOMAIN wrote : wrote[i] = "original") =>
         Contents(DerivedBoard) = DerivedContents0

\* the same of the board copy() returned alone
C14_CopyIndependent ==
  (pc = "board_derived" /\ derived.array = "copied") =>
    /\ (\A i \in DOMAIN wrote : wrote[i] = "derived") => Contents(TheBoard) = cells0
    /\ (\A i \in DOMAIN wrote : wrote[i] = "original") =>
         Contents(DerivedBoard) = DerivedContents0

(***************************************************************************)
(* Properties of Move.anchored_to_moves                                    *)
(***************************************************************************)
\* the squares the letters of the word land on
LandsOn(a) ==
  { IF a.across THEN <<a.anchor_pos[1], a.anchor_pos[2] - a.anchor_index + k>>
                ELSE <<a.anchor_pos[1] - a.anchor_index + k, a.anchor_pos[2]>> :
      k \in 0..(Len(a.word) - 1) }

\* all letters land in bounds, and the word has an anchor_index-th letter
PlacedInBounds(a) ==
  /\ a.anchor_index < Len(a.word)
  /\ \A pos \in LandsOn(a) : ~out_of_bounds(pos)

\* the anchor_index-th letter of the word sits at anchor_pos
AnchorLetterAtAnchor ==
  \E k \in DOMAIN move : move[k] = <<args.word[args.anchor_index + 1], args.anchor_pos>>

\* C15 as stated: for a word in any letter case placed fully in bounds,
\* anchored_to_moves(w, p, i, across).get_word() is w.upper(), and the i-th letter
\* of w sits at p
C15_GetWordIsUpper ==
  (pc = "anchored_done" /\ PlacedInBounds(args)) =>
    (result = UpperWord(args.word) /\ AnchorLetterAtAnchor)

\* C15: for a word in any letter case placed fully in bounds,
\* anchored_to_moves(w, p, i, across).get_word() is w itself, the case of every
\* letter kept (so it is w.upper() when w has no lower-case letter), and the i-th
\* letter of w sits at p
C15_GetWordKeepsCase ==
  (pc = "anchored_done" /\ PlacedInBounds(args)) =>
    /\ result = args.word
    /\ (args.word = UpperWord(args.word)) => result = UpperWord(args.word)
    /\ AnchorLetterAtAnchor

C15_Witness ==
  /\ pc = "anchored_done"
  /\ args = [word |-> <<"b", "A", "b">>, anchor_pos |-> <<13, 1>>, anchor_index |-> 1,
             across |-> FALSE]
  /\ PlacedInBounds(args)
  /\ result = <<"b", "A", "b">>
  /\ move = << <<"b", <<12, 1>>>>, <<"A", <<13, 1>>>>, <<"b", <<14, 1>>>> >>

(***************************************************************************)
(* Properties of the Tree                                                  *)
(***************************************************************************)
\* {w.upper() : w in W}
UpperWords(word_list) == { UpperWord(word_list[k]) : k \in DOMAIN word_list }

\* the nodes of the tree: the root and every node an edge leads to
RECURSIVE NodesBelow(_, _)
NodesBelow(t, node) ==
  {node} \cup UNION { NodesBelow(t, Append(node, t.branch_nodes[node][k])) :
                        k \in DOMAIN t.branch_nodes[node] }

\* the letters on the edges from the root to the node
Spells(node) == node

\* C16: build_from_list(W).lookup(s) returns a node if and only if s.upper() is
\* in {w.upper() : w in W}; every word of W reaches a terminal node by walking
\* its letters from the root, and every terminal node of the tree spells a word
\* of W
C16_LookupIffInList ==
  /\ pc = "tree_looked_up" =>
       ((result # None) <=> (UpperWord(args.path) \in UpperWords(args.word_list)))
  /\ pc \in {"tree_built", "tree_got_node", "tree_looked_up"} =>
       /\ \A k \in DOMAIN args.word_list :
            Walk(the_tree, args.word_list[k], 1, root_node) \in the_tree.terminal
       /\ \A node \in NodesBelow(the_tree, root_node) :
            node \in the_tree.terminal => Spells(node) \in UpperWords(args.word_list)
       /\ the_tree.terminal \subseteq NodesBelow(the_tree, root_node)

C16_Witness ==
  /\ pc = "tree_looked_up"
  /\ args.word_list = << <<"a", "t">>, <<"A", "t", "a">> >>
  /\ args.path = <<"A", "T">>
  /\ result = <<"A", "T">>

\* some edge of the path is missing from the tree
EdgeMissing(t, path) ==
  \E k \in DOMAIN path :
    /\ SubSeq(path, 1, k - 1) \in NodesBelow(t, root_node)
    /\ ~Has(t.branch_nodes[SubSeq(path, 1, k - 1)], path[k])

\* C17: get_node(path) raises KeyError exactly when an edge of the upper-cased
\* path is missing and otherwise returns the node at that path; lookup(word)
\* never raises and returns None exactly when the path is missing or its node is
\* not terminal; neither changes the tree
C17_GetNodeRaisesLookupDoesNot ==
  /\ pc = "tree_got_node" =>
       /\ (result = KeyError) <=> EdgeMissing(the_tree, UpperWord(args.path))
       /\ (result # KeyError) => result = UpperWord(args.path)
  /\ pc = "tree_looked_up" =>
       /\ result # KeyError
       /\ (result = None) <=>
            \/ EdgeMissing(the_tree, UpperWord(args.path))
            \/ UpperWord(args.path) \notin the_tree.terminal
  /\ pc \in {"tree_got_node", "tree_looked_up"} => the_tree = build_from_list(args.word_list)

C17_WitnessFound ==
  /\ pc = "tree_got_node"
  /\ args.word_list = << <<"A", "t", "a">> >>
  /\ args.path = <<"a", "T", "a">>
  /\ result = <<"A", "T", "A">>

C17_WitnessRaised ==
  /\ pc = "tree_got_node"
  /\ args.word_list = << <<"A", "t", "a">> >>
  /\ args.path = <<"A", "A">>
  /\ result = KeyError

(***************************************************************************)
(* Properties of the order of the stream of calc_all_moves                 *)
(***************************************************************************)
\* a step of a call that yields a move: the stream grows by one move at its end
Yields == \E m \in {out'[Len(out')]} : out' = Append(out, m)

\* within one call the stream only grows, a move at a time, and once the down
\* pass has begun the across pass yields no more: the generator never goes back
\* from the transposed board to the board
AcrossBeforeDown ==
  (result' = result) =>
    /\ out' # out => (Len(out') > 0 /\ Yields)
    /\ pass = "down" => pass' = "down"

\* C18: every move the across pass produces is yielded before any move the down
\* pass produces, and a second call on the same board, rack and lexicon yields
\* the same sequence of moves as the first
C18_AcrossFirstAndRepeatable ==
  /\ [][AcrossBeforeDown]_vars
  /\ []((pc = "done" /\ result # <<>>) => out = result)

\* a second call has ended on a rack the first call left in another order,
\* having yielded moves of both passes
C18_Witness ==
  /\ pc = "done"
  /\ result # <<>>
  /\ out = result
  /\ rack # rack0
  /\ cells0 = Laid(EmptyArray, <<"C","A","T">>, <<7, 7>>, TRUE)
  /\ \E i \in DOMAIN out : Len(out[i]) > 1 /\ across(out[i])
  /\ \E i \in DOMAIN out : Len(out[i]) > 1 /\ ~across(out[i])

(***************************************************************************)
(* Properties of Move equality                                             *)
(***************************************************************************)
\* how many times the pair occurs among the tiles
Occurrences(tiles, tile) == Cardinality({ i \in DOMAIN tiles : tiles[i] = tile })

\* the two lists hold the same multiset of (tile, pos) pairs
SameMultiset(tiles, other_tiles) ==
  \A tile \in Range(tiles) \cup Range(other_tiles) :
    Occurrences(tiles, tile) = Occurrences(other_tiles, tile)

\* C19: two Moves compare equal if and only if their multisets of (tile, pos)
\* pairs are equal, whatever the order the tiles were passed to the constructor
\* or appended with +=, and whether or not get_word was called on either
C19_EqualIffSameMultiset ==
  pc = "moves" => (move_eq(move, other) <=> SameMultiset(move, other))

\* equal Moves hold the same multiset: the direction that does hold
C19_EqualOnlyIfSameMultiset ==
  pc = "moves" => (move_eq(move, other) => SameMultiset(move, other))

(***************************************************************************)
(* Properties of the anchors                                               *)
(***************************************************************************)
\* the board the pass was given: the input board, or its transpose
PassInputBoard == [data |-> cells0, transposed |-> (pass = "down")]

\* the cell is on the board and holds a tile
Occupied(brd, pos) == ~out_of_bounds(pos) /\ get_square(brd, pos) # " "

\* the empty cells with a tile above, below, left or right of them
EmptyCellsBesideTiles(brd) ==
  { pos \in Pos :
      /\ get_square(brd, pos) = " "
      /\ \/ Occupied(brd, <<pos[1] - 1, pos[2]>>)
         \/ Occupied(brd, <<pos[1] + 1, pos[2]>>)
         \/ Occupied(brd, <<pos[1], pos[2] - 1>>)
         \/ Occupied(brd, <<pos[1], pos[2] + 1>>) }

NoTiles(brd) == \A pos \in Pos : get_square(brd, pos) = " "

C20_WitnessEmpty ==
  /\ pc = "anchors"
  /\ cells0 = EmptyArray
  /\ anchors = << <<7, 7>> >>

(***************************************************************************)
(* Properties of _calc_cross_check                                         *)
(***************************************************************************)
\* the tiles directly above the cell, top to bottom, up to the first empty cell
RunAbove(brd, pos) ==
  LET n == CHOOSE k \in 0..pos[1] :
             /\ \A j \in 1..k : Occupied(brd, <<pos[1] - j, pos[2]>>)
             /\ ~Occupied(brd, <<pos[1] - k - 1, pos[2]>>)
  IN  [i \in 1..n |-> get_square(brd, <<pos[1] - n + i - 1, pos[2]>>)]

\* the tiles directly below the cell, top to bottom, up to the first empty cell
RunBelow(brd, pos) ==
  LET n == CHOOSE k \in 0..(MaxIndex - pos[1]) :
             /\ \A j \in 1..k : Occupied(brd, <<pos[1] + j, pos[2]>>)
             /\ ~Occupied(brd, <<pos[1] + k + 1, pos[2]>>)
  IN  [i \in 1..n |-> get_square(brd, <<pos[1] + i, pos[2]>>)]

\* the vertical run through the cell with the letter written in it
VerticalRun(brd, pos, letter) == RunAbove(brd, pos) \o <<letter>> \o RunBelow(brd, pos)

\* the run in upper case is a word of the word list
IsLexiconWord(word) == \E k \in DOMAIN WordList : UpperWord(WordList[k]) = UpperWord(word)

\* the letters that make a word of more than one tile in the column of the cell
CrossLetters(brd, pos) ==
  { letter \in Range(UpperCase) :
      /\ Len(VerticalRun(brd, pos, letter)) > 1
      /\ IsLexiconWord(VerticalRun(brd, pos, letter)) }

\* the cell is empty and the cell directly above or below it is occupied
HasVerticalNeighbour(brd, pos) ==
  /\ get_square(brd, pos) = " "
  /\ Occupied(brd, <<pos[1] - 1, pos[2]>>) \/ Occupied(brd, <<pos[1] + 1, pos[2]>>)

\* C21: when _calc_cross_check returns, every empty cell with an occupied cell
\* directly above or below holds exactly the letters that make the vertical run
\* through it a lexicon word of more than one tile, every other cell holds all
\* 26 letters, and the board is cell for cell what it was
C21_CrossCheckIsVerticalWords ==
  (pc = "anchors" /\ ai = 1) =>
    /\ \A pos \in Pos :
         CrossCheckAt(cross_check, pos) =
           IF HasVerticalNeighbour(PassInputBoard, pos)
           THEN CrossLetters(PassInputBoard, pos)
           ELSE Range(UpperCase)
    /\ cells = cells0

\* the spec's example: with CAT at (7,7)..(7,9) the cell (6,8) accepts only
\* the letters L for which LA is a word (TA), and (8,8) those of AS and AT
C21_Witness ==
  /\ pc = "anchors"
  /\ ai = 1
  /\ pass = "across"
  /\ cells0 = Laid(EmptyArray, <<"C","A","T">>, <<7, 7>>, TRUE)
  /\ CrossCheckAt(cross_check, <<6, 8>>) = {"T"}
  /\ CrossCheckAt(cross_check, <<8, 8>>) = {"S", "T"}
  /\ CrossCheckAt(cross_check, <<6, 7>>) = {}
  /\ CrossCheckAt(cross_check, <<7, 10>>) = Range(UpperCase)

(***************************************************************************)
(* Properties of the anchor a move was generated from                      *)
(***************************************************************************)
\* the anchor the search is at, as a square of the input board
MainAnchorSquare == IF pass = "down" THEN transpose_pos(anchors[ai]) ELSE anchors[ai]

\* a cell above, below, left or right of the square holds a tile of the board
BesideTile(brd, pos) ==
  \/ Occupied(brd, <<pos[1] - 1, pos[2]>>)
  \/ Occupied(brd, <<pos[1] + 1, pos[2]>>)
  \/ Occupied(brd, <<pos[1], pos[2] - 1>>)
  \/ Occupied(brd, <<pos[1], pos[2] + 1>>)

\* C22: every non-empty move yielded has a tile on the main anchor square it
\* was generated from; so on a board with tiles one of its tiles is beside a
\* tile of the board, and on the empty board it covers (7,7)
C22_TileOnMainAnchor ==
  (yielded /\ LastMove # EmptyMove) =>
    /\ \E i \in DOMAIN LastMove : LastMove[i][2] = MainAnchorSquare
    /\ ~NoTiles(InputBoard) => \E i \in DOMAIN LastMove : BesideTile(InputBoard, LastMove[i][2])
    /\ NoTiles(InputBoard) => \E i \in DOMAIN LastMove : LastMove[i][2] = <<7, 7>>

\* a move of the down pass whose first tile belongs to the left part: the tile
\* on the anchor comes later in the move
C22_Witness ==
  /\ yielded
  /\ pass = "down"
  /\ ~NoTiles(InputBoard)
  /\ Len(LastMove) >= 2
  /\ LastMove[1][2] # MainAnchorSquare
  /\ \E i \in DOMAIN LastMove : LastMove[i][2] = MainAnchorSquare

(***************************************************************************)
(* Properties of the left limit and of the left part                       *)
(***************************************************************************)
\* the cell k steps left of the anchor
LeftOf(anchor, k) == <<anchor[1], anchor[2] - k>>

\* the cell is on the board, empty, and no anchor
FreeCell(brd, anchor_list, pos) ==
  ~out_of_bounds(pos) /\ get_square(brd, pos) = " " /\ ~Has(anchor_list, pos)

\* the number of consecutive empty non-anchor cells immediately left of the anchor
LeftRoom(brd, anchor_list, anchor) ==
  CHOOSE k \in 0..anchor[2] :
    /\ \A j \in 1..k : FreeCell(brd, anchor_list, LeftOf(anchor, j))
    /\ ~FreeCell(brd, anchor_list, LeftOf(anchor, k + 1))

\* the tiles of the board that stand in one run immediately left of the anchor
RunLeft(brd, anchor) ==
  LET n == CHOOSE k \in 0..anchor[2] :
             /\ \A j \in 1..k : Occupied(brd, LeftOf(anchor, j))
             /\ ~Occupied(brd, LeftOf(anchor, k + 1))
  IN  [i \in 1..n |-> get_square(brd, LeftOf(anchor, n + 1 - i))]

Min(a, b) == IF a < b THEN a ELSE b

\* the prefix a call of _right_part was started with
PrefixOf(frame) == SubSeq(frame.partial_word, 1, frame.main_anchor_index)

\* the tiles of `placed` left of the anchor, in the order they were placed
PlacedLeft(anchor) == SelectSeq(placed, LAMBDA tile : tile[2][2] < anchor[2])

\* C23: the left limit of an anchor is the number of consecutive empty
\* non-anchor cells immediately left of it; every prefix _left_part produces is
\* at most min(L, 6) long, its tiles stand on in-bounds, empty, non-anchor cells
\* and the cell left of it is empty or off the board; when L = 0 the prefix is
\* the run of board tiles left of the anchor and no tile is placed left of it
C23_LeftLimitBoundsPrefix ==
  (pc = "search" /\ stack # <<>>) =>
    \E anchor \in {anchors[ai]} : \E room \in {LeftRoom(PassBoard, anchors, anchor)} :
      /\ left_limit(PassBoard, anchors, anchor) = room
      /\ \A k \in DOMAIN stack :
           /\ stack[k].kind = "L" =>
                /\ room > 0
                /\ Len(stack[k].partial_word) <= Min(room, 6)
           /\ (stack[k].kind = "R" /\ room > 0) =>
                /\ Len(PrefixOf(stack[k])) <= Min(room, 6)
                /\ PlacedLeft(anchor) =
                     anchored_to_moves(PrefixOf(stack[k]), anchor, Len(PrefixOf(stack[k])), TRUE)
                /\ \A j \in 1..Len(PrefixOf(stack[k])) :
                     FreeCell(PassBoard, anchors, LeftOf(anchor, j))
                /\ \/ out_of_bounds(LeftOf(anchor, Len(PrefixOf(stack[k])) + 1))
                   \/ get_square(PassBoard, LeftOf(anchor, Len(PrefixOf(stack[k])) + 1)) = " "
           /\ (stack[k].kind = "R" /\ room = 0) =>
                /\ PrefixOf(stack[k]) = RunLeft(PassBoard, anchor)
                /\ PlacedLeft(anchor) = <<>>

\* on the empty board the anchor (7,7) has seven free cells to its left and the
\* prefix ESTATE, of six tiles, is as long as a prefix gets
C23_Witness ==
  /\ pc = "search"
  /\ Top.kind = "R"
  /\ LeftRoom(PassBoard, anchors, anchors[ai]) = 7
  /\ PrefixOf(Top) = <<"E","S","T","A","T","E">>
  /\ Len(PlacedLeft(anchors[ai])) = 6

\* the anchor right of CAT has no room to its left: the prefix is CAT
C23_WitnessNoRoom ==
  /\ pc = "search"
  /\ Top.kind = "R"
  /\ LeftRoom(PassBoard, anchors, anchors[ai]) = 0
  /\ PrefixOf(Top) = <<"C","A","T">>
  /\ placed # EmptyMove

(***************************************************************************)
(* Properties of the traversals of the board                               *)
(***************************************************************************)
\* The k-th cell of the ray from start along step
RayCell(start, step, k) == <<start[1] + k * step[1], start[2] + k * step[2]>>

\* The cell ends a ray: it is off the board or it satisfies the stop condition
EndsRay(pos) ==
  \/ pos \notin Pos
  \/ stop_condition(args.condition, WalkBoard, cells[pos], pos)

\* How many cells of the ray lie before its first ending cell
RayLength(start, step) ==
  Cardinality({ k \in 1..BoardSize : \A j \in 1..k : ~EndsRay(RayCell(start, step, j)) })

\* The cells of the ray before its first ending cell, nearest first
Ray(start, step) ==
  [k \in 1..RayLength(start, step) |-> <<cells[RayCell(start, step, k)], RayCell(start, step, k)>>]

Backwards == <<-args.direction[1], -args.direction[2]>>

\* The backward cells farthest first, the cell at pos, the forward cells
AxisCells ==
  LET back == Ray(args.start, Backwards)
  IN  [k \in 1..Len(back) |-> back[Len(back) + 1 - k]]
        \o << <<cells[args.start], args.start>> >>
        \o Ray(args.start, args.direction)

\* C24: traverse_until_condition yields the cells start + k*step in order, up to
\* but excluding the first that is off the board or satisfies the stop
\* condition, never start itself and never a position off the board, each with
\* the tile of its own row and column; traverse_axis_until_condition yields the
\* backward cells in reading order, then pos, then the forward cells.  Both
\* agree with the operators the other functions of the model are built on.
C24_TraversalYieldsTheRay ==
  pc = "walk_done" =>
    IF args.axis
    THEN /\ result = AxisCells
         /\ result = traverse_axis_until_condition(WalkBoard, args.start,
                                                   args.direction, args.condition)
    ELSE /\ result = Ray(args.start, args.direction)
         /\ result = traverse_until_condition(WalkBoard, args.start,
                                              args.direction, args.condition)
         /\ \A k \in DOMAIN result :
              /\ result[k][2] # args.start
              /\ result[k][2] \in Pos
              /\ result[k][1] = cells[result[k][2]]

\* a ray along a word that reaches the last row and ends past it
C24_Witness ==
  /\ pc = "walk_done"
  /\ ~args.axis
  /\ args.start = <<12, 0>>
  /\ args.direction = <<1, 0>>
  /\ args.condition = StopAtEmpty
  /\ result = << <<"A", <<13, 0>>>>, <<"T", <<14, 0>>>> >>
  /\ current_position = <<15, 0>>

\* an axis through a word: the tiles before pos in reading order, pos, the rest
C24_WitnessAxis ==
  /\ pc = "walk_done"
  /\ args.axis
  /\ args.start = <<7, 8>>
  /\ args.direction = <<0, 1>>
  /\ args.condition = StopAtEmpty
  /\ result = << <<"C", <<7, 7>>>>, <<"A", <<7, 8>>>>, <<"T", <<7, 9>>>> >>

(***************************************************************************)
(* Properties of the stream as a set of plays                              *)
(***************************************************************************)
\* The set of the <<tile, position>> pairs of a move
TilePairs(tiles) == Range(tiles)

\* C25: no non-empty move is yielded twice within one call: any two elements
\* of the stream at different indices differ in their set of <<tile, position>>
\* pairs.
C25_NoMoveTwice ==
  \A i \in DOMAIN out : \A j \in DOMAIN out :
    (i # j /\ out[i] # EmptyMove) => TilePairs(out[i]) # TilePairs(out[j])

\* How many elements of the stream have the pairs of the move
TimesYielded(tiles) ==
  Cardinality({ i \in DOMAIN out : TilePairs(out[i]) = TilePairs(tiles) })

\* C25, amended: a move of two or more tiles is yielded once; a one-tile move
\* is yielded at most twice, and the across pass yields no move twice.  The
\* stream only grows, so each move is counted when it is yielded.
C25_OnlyOneTileMovesTwice ==
  (yielded /\ LastMove # EmptyMove) =>
    \E times \in {TimesYielded(LastMove)} :
      /\ Len(LastMove) >= 2 => times = 1
      /\ Len(LastMove) = 1 => times <= 2
      /\ (Len(LastMove) = 1 /\ pass = "across") => times = 1

\* the call has ended having yielded a one-tile move in both passes and moves
\* of two tiles in each pass
C25_Witness ==
  /\ pc = "done"
  /\ \E i \in DOMAIN out : Len(out[i]) = 1 /\ TimesYielded(out[i]) = 2
  /\ \E i \in DOMAIN out : Len(out[i]) = 2 /\ across(out[i])
  /\ \E i \in DOMAIN out : Len(out[i]) = 2 /\ ~across(out[i])

(***************************************************************************)
(* Properties of the rack after the call                                   *)
(***************************************************************************)
\* C26: when the stream is consumed to its end the rack is the same ordered
\* sequence as before the call: the same tiles at the same indices.
C26_RackSameSequence == pc = "done" => rack = rack0

(***************************************************************************)
(* Properties of the ownership of the moves of the stream                  *)
(***************************************************************************)
\* every move the consumer holds stays in the stream as it was yielded
YieldedMovesStay == \A i \in DOMAIN out : i \in DOMAIN out' /\ out'[i] = out[i]

C28_WordsOfTwoOrMore ==
  (yielded /\ LastMove # EmptyMove /\ cells0 # EmptyArray) =>
    \A w \in Range(WordsFormed(InputBoard, LastMove)) : Len(w) >= 2

(***************************************************************************)
(* Properties of PartialGame                                               *)
(***************************************************************************)
\* a step that is a call of make_move that raised
MakeMoveRaised == pc' = "made" /\ result' = <<"ValueError">>

\* C29: a make_move that fails because a tile of the move, a lowercase blank
\* tile included, is not in the pool or in the observer's rack leaves history,
\* board, pool, rack and current_player as they were before the call.
C29_FailedMoveChangesNothing ==
  [][MakeMoveRaised =>
       /\ history' = history
       /\ cells' = cells
       /\ pool' = pool
       /\ rack' = rack
       /\ current_player' = current_player]_vars

\* The tiles of the move, as many times as the move has each, are in the pool
\* and, when the observer is to move in game.py, in the rack
Available(tiles, game) ==
  \A tile \in AnyTile :
    LET needed == Cardinality({ i \in DOMAIN tiles : tiles[i][1] = tile })
    IN  /\ needed <= game.pool[tile]
        /\ (args.file = "game.py" /\ game.current_player = 0) => needed <= Tally(game.rack)[tile]

OnEmptyCells(tiles, game) == \A i \in DOMAIN tiles : game.board[tiles[i][2]] = " "

\* make_move was called on a move on empty cells whose tiles were there, and
\* undo_last_move right after it
MadeAndUndone ==
  /\ pc = "undone"
  /\ OnEmptyCells(move, before)
  /\ Available(move, before)

Restored ==
  /\ cells = before.board
  /\ pool = before.pool
  /\ Tally(rack) = Tally(before.rack)
  /\ current_player = before.current_player
  /\ history = before.history

\* C30: make_move(m), for m on empty cells with its tiles available, followed
\* by undo_last_move() restores the board, the pool and the rack as multisets,
\* current_player and history; undo_last_move() on an empty history changes
\* none of them.
C30_UndoRestores ==
  /\ [](MadeAndUndone => Restored)
  /\ [][GameUndoNothing => UNCHANGED <<cells, pool, rack, current_player, history>>]_vars

====
